---- MODULE Spec2Model ----
(***************************************************************************)
(* Verification model of the AR Collections & Dunning repository.          *)
(*                                                                         *)
(* Part 1 - the agentic orchestrator: CollectionsChat.sendMessage and      *)
(* CollectionsChat.executeTool (src/src/chat/collectionsChat.ts) together  *)
(* with the CollectionsAgent operations they call                          *)
(* (src/src/agents/collectionsAgent.ts).                                   *)
(*                                                                         *)
(* One sendMessage runs at a time (the chat CLI drops input while one is in *)
(* flight). Its actions follow the code from one await to the next, with   *)
(* the head of the inner loop as one more stop:                            *)
(*   SendMessage    the call, up to the first completions.create           *)
(*   ModelResponds  the model's turn arrives: the return, or the entry     *)
(*                  into the loop over its intents                         *)
(*   ModelRejects   completions.create rejects                             *)
(*   StartTool      JSON.parse the arguments, invoke executeTool           *)
(*   ToolCompletes  executeTool settles, the tool message is pushed        *)
(*   EndTurn        i++, the next completions.create or the fallback       *)
(*                                                                         *)
(* Part 2 - the ERP MCP server (the second half of                         *)
(* src/src/connectors/graphConnector.ts: the data functions, the tools/list *)
(* and tools/call handlers) and its client: parseToolResult of             *)
(* src/examples/mcp-client-example.ts and the session the ERP connector     *)
(* keeps (docs/ARCHITECTURE.md). Its actions:                              *)
(*   CallTool       one tools/call round trip: lazy start, dispatch, parse *)
(*   ListTools      one tools/list round trip                              *)
(*   Close          close() of the connector                               *)
(*                                                                         *)
(* Part 3 - get_prioritized_customers: executeTool's slice of              *)
(* CollectionsAgent.prioritizeCollectionEfforts (PrioSpec).                *)
(*                                                                         *)
(* Part 4 - the example functions of examples/collections-workflow.ts      *)
(* and the agent methods they call (WfSpec).                               *)
(*                                                                         *)
(* Part 5 - the interactive chat CLI (src/unnamed/part_001): the line      *)
(* handler, its processing flag and the exit path (CliSpec; CliLiveSpec    *)
(* adds that every awaited sendMessage settles).                           *)
(*                                                                         *)
(* Part 6 - the REST API server (src/unnamed/part_012): the agent          *)
(* singleton, the routes, shutdown() and the signal handlers (ApiSpec).    *)
(*                                                                         *)
(* Part 7 - the commands of examples/mcp-client-example.ts: connect,       *)
(* the requests inside try, client.close() in finally (CmdSpec).           *)
(*                                                                         *)
(* Part 8 - the batch operations of CollectionsAgent,                      *)
(* processHighRiskCustomers and prioritizeCollectionEfforts, one loop      *)
(* iteration at a time (BatchSpec).                                        *)
(*                                                                         *)
(* Part 9 - CollectionsAgent.summarizeCustomerPromises, one filter         *)
(* callback at a time under an advancing clock (PromiseSpec).              *)
(*                                                                         *)
(* Part 10 - calculateARAgingFromDynamicsInvoices of ERPConnector          *)
(* (src/src/connectors/erpConnector.ts) and of the MCP server, side by     *)
(* side on the same invoice rows (AgingSpec).                              *)
(***************************************************************************)
EXTENDS Integers, Sequences, FiniteSets, TLC

\* ------------------------------------------------------------------------
\* Bounds of the model (not program constants)
\* ------------------------------------------------------------------------
\* sendMessage calls made on one CollectionsChat
MaxUserMessages == 2
\* tool-call intents in one model turn
MaxIntents == 2
\* model turns of one run that carry more than one intent
MaxMultiTurns == 1
\* departures of the environment from the plain script in one run: a rejected
\* model call, a failed tool execution, malformed arguments, a tool turn with
\* text, a final turn without text
MaxDeviations == 1

\* ------------------------------------------------------------------------
\* Program constants
\* ------------------------------------------------------------------------
MAX_ITERATIONS == 15

NULL == "null"

FALLBACK == "I reached the maximum number of steps. Please try a more specific request."

\* The names advertised to the model in TOOLS
TOOLS ==
  { "get_prioritized_customers", "analyze_customer_risk", "send_dunning_email",
    "propose_payment_plan", "send_teams_notification", "record_promise_to_pay" }

\* The tools whose agent operation sends a message or writes a record
SideEffecting ==
  { "send_dunning_email", "propose_payment_plan", "send_teams_notification",
    "record_promise_to_pay" }

\* A name the model may emit that is not in TOOLS
UnknownTool == "delete_customer"

ModelToolNames == TOOLS \cup {UnknownTool}

\* toolCall.function.arguments is a string produced by the model
WellFormedArgs == "{\"customer_id\":\"CUST-001\"}"
MalformedArgs == "{\"customer_id\":"
ArgStrings == {WellFormedArgs, MalformedArgs}

VARIABLES
  history,      \* CollectionsChat.history
  pc,           \* where sendMessage is: idle | awaitModel | toolLoop | awaitTool
  i,            \* the loop counter of sendMessage
  calls,        \* message.tool_calls of the turn being processed
  k,            \* index in calls of the intent whose executeTool is awaited
  inFlight,     \* ids of the intents whose executeTool promise is pending
  outcome,      \* how the last sendMessage ended
  modelCalls,   \* completions.create calls of the current sendMessage
  toolLog,      \* ids of the intents executeTool was invoked for, in order
  effects,      \* ids of the intents whose external send/write was performed
  auditNotes,   \* ids of the intents whose agent operation logged its CRM note
  lostConnections, \* ids of the intents whose execution lost its connection
  nextId,       \* the next tool-call id the model issues
  userMessages, \* sendMessage calls so far
  multiTurns,   \* model turns with more than one intent so far
  deviations,   \* departures from the plain script so far
  scriptTool    \* the tool the scripted model keeps requesting

vars ==
  << history, pc, i, calls, k, inFlight, outcome, modelCalls, toolLog, effects,
     auditNotes, lostConnections, nextId, userMessages, multiTurns, deviations, scriptTool >>

VARIABLES
  demoMode,      \* DEMO_MODE of the server process
  client,        \* the connector's client field: NULL or "connected"
  processes,     \* the live child processes of the session
  spawned,       \* child processes started so far
  requests,      \* tools/call and tools/list requests sent so far
  closes,        \* close() calls so far
  lastRequest,   \* params of the last tools/call request
  lastResult,    \* what the call-tool handler returned for it
  lastOps,       \* the data functions the handler ran for it, in order
  lastDelivered, \* what the client's caller got for it
  catalogs,      \* the distinct results of tools/list so far
  failures,      \* tools/call requests answered with isError so far
  lastClose,     \* how the last close() went: none | terminated | noop | threw
  lastMethod,    \* the method of the last request: none | tools/call | tools/list
  lastThrown,    \* the message of what was thrown inside the handler's try, or NULL
  lastReturned,  \* the value the switch case obtained for serialization, if any
  lastReply      \* what the ERP system did during the last tools/call

mcpVars ==
  << demoMode, client, processes, spawned, requests, closes, lastRequest, lastResult,
     lastOps, lastDelivered, catalogs, failures, lastClose, lastMethod, lastThrown,
     lastReturned, lastReply >>

VARIABLES
  erpCustomers,  \* what the ERP connector gives prioritizeCollectionEfforts
  topN,          \* args.top_n of the get_prioritized_customers call
  prioritized    \* what executeTool('get_prioritized_customers') settled with

prioVars == << erpCustomers, topN, prioritized >>

VARIABLES
  example,       \* the example function of collections-workflow.ts that runs
  exampleEnv,    \* what it finds: customers, risk level, configured addresses
  agentCalls,    \* the methods it has called on its CollectionsAgent, in order
  exampleStatus  \* running | returned | thrown

wfVars == << example, exampleEnv, agentCalls, exampleStatus >>

VARIABLES
  processing,    \* the flag of the chat CLI's line handler
  paused,        \* rl.pause() was called and rl.resume() was not yet
  rlClosed,      \* rl.close() was called
  sendsInFlight, \* chat.sendMessage calls that have not settled
  closesInFlight, \* chat.close() calls that have not settled
  linesSeen,     \* 'line' events emitted so far
  lastLine,      \* the last line and what the handler did with it
  cliLog         \* what the handler did, in order

cliVars ==
  << processing, paused, rlClosed, sendsInFlight, closesInFlight, linesSeen, lastLine,
     cliLog >>

VARIABLES
  shutdowns,     \* one record per call of shutdown(), in the order of the signals
  serverState,   \* "listening", "closing" (server.close called), "closed"
  connections,   \* HTTP requests being served
  apiChild,      \* the MCP child process of the agent singleton is running
  exited         \* process.exit(0) was called

apiVars == << shutdowns, serverState, connections, apiChild, exited >>

VARIABLES
  command,       \* the command of mcp-client-example.ts that main() runs
  cmdStatus,     \* connecting | running | closing | returned | thrown
  cmdConnected,  \* client.connect resolved: the command holds a connected client
  stepsDone,     \* the requests of the command that were answered and printed
  cmdFailure,    \* the step of the try block that failed and how, if any
  clientCloses,  \* calls of client.close()
  cmdThrown      \* what the command function threw: none | connect | the
                 \* failure of a step | close

cmdVars ==
  << command, cmdStatus, cmdConnected, stepsDone, cmdFailure, clientCloses, cmdThrown >>

VARIABLES
  batchOp,       \* processHighRiskCustomers or prioritizeCollectionEfforts
  fetched,       \* what getCustomersWithOutstandingBalance gives the operation
  batchAt,       \* the position of the for loop in the fetched list
  visited,       \* the customer ids the loop body was entered for, in order
  collected,     \* prioritizedCustomers
  batchStatus    \* fetching | looping | returned | thrown

batchVars == << batchOp, fetched, batchAt, visited, collected, batchStatus >>

VARIABLES
  promises,     \* paymentHistory.promiseToPayHistory of the customer
  clock,        \* what new Date() reads now
  filterName,   \* the filter of the summary that is running
  filterAt,     \* the index of the promise its callback tests next
  counted       \* the length of the result of each filter so far

promiseVars == << promises, clock, filterName, filterAt, counted >>

VARIABLES
  d365Invoices, \* the invoice rows both implementations are given
  agingAt,      \* the position of the for loop in the rows
  erpAging,     \* the totals and entries of ERPConnector so far
  mcpAging,     \* the totals and entries of the MCP server so far
  agingDone     \* TRUE once both have returned

agingVars == << d365Invoices, agingAt, erpAging, mcpAging, agingDone >>

\* The variables outside each part of the model
notChat == << mcpVars, prioVars, wfVars, cliVars, apiVars, cmdVars, batchVars, promiseVars, agingVars >>
notMcp == << vars, prioVars, wfVars, cliVars, apiVars, cmdVars, batchVars, promiseVars, agingVars >>
notPrio == << vars, mcpVars, wfVars, cliVars, apiVars, cmdVars, batchVars, promiseVars, agingVars >>
notWf == << vars, mcpVars, prioVars, cliVars, apiVars, cmdVars, batchVars, promiseVars, agingVars >>
notCli == << vars, mcpVars, prioVars, wfVars, apiVars, cmdVars, batchVars, promiseVars, agingVars >>
notApi == << vars, mcpVars, prioVars, wfVars, cliVars, cmdVars, batchVars, promiseVars, agingVars >>
notCmd == << vars, mcpVars, prioVars, wfVars, cliVars, apiVars, batchVars, promiseVars, agingVars >>
notBatch == << vars, mcpVars, prioVars, wfVars, cliVars, apiVars, cmdVars, promiseVars, agingVars >>
notPromise == << vars, mcpVars, prioVars, wfVars, cliVars, apiVars, cmdVars, batchVars, agingVars >>
notAging == << vars, mcpVars, prioVars, wfVars, cliVars, apiVars, cmdVars, batchVars, promiseVars >>

\* ------------------------------------------------------------------------
\* Messages
\* ------------------------------------------------------------------------
SystemMessage ==
  [role |-> "system", content |-> "prompt", tool_calls |-> << >>, tool_call_id |-> 0]

UserMessage ==
  [role |-> "user", content |-> "request", tool_calls |-> << >>, tool_call_id |-> 0]

AssistantMessage(content, toolCalls) ==
  [role |-> "assistant", content |-> content, tool_calls |-> toolCalls, tool_call_id |-> 0]

ToolMessage(id, content) ==
  [role |-> "tool", content |-> content, tool_calls |-> << >>, tool_call_id |-> id]

\* ------------------------------------------------------------------------
\* JSON.parse and JSON.stringify, as far as sendMessage uses them
\* ------------------------------------------------------------------------
\* JSON.parse(toolCall.function.arguments): an object, or a SyntaxError
JSONparse(s) ==
  IF s = WellFormedArgs
    THEN [threw |-> FALSE, value |-> [customer_id |-> "CUST-001"]]
    ELSE [threw |-> TRUE, value |-> "SyntaxError"]

\* JSON.stringify(result) of the values executeTool returns and of the
\* { error } object sendMessage builds
JSONstringify(result) ==
  CASE result = [success |-> TRUE] -> "{\"success\":true}"
    [] result = [data |-> "customers"] -> "[{\"customerId\":\"CUST-001\"}]"
    [] result = [data |-> "riskScore"] -> "{\"riskLevel\":\"high\"}"
    [] result = [error |-> "Unknown tool"] -> "{\"error\":\"Unknown tool\"}"
    [] result = [error |-> "Failed to fetch"] -> "{\"error\":\"Failed to fetch\"}"
    [] result = [error |-> "Failed to send"] -> "{\"error\":\"Failed to send\"}"
    [] result = [error |-> "Failed to update"] -> "{\"error\":\"Failed to update\"}"
    [] result = [error |-> "Connection closed"] -> "{\"error\":\"Connection closed\"}"

ErrorMessages ==
  {"Unknown tool", "Failed to fetch", "Failed to send", "Failed to update", "Connection closed"}

ErrorContents == { JSONstringify([error |-> m]) : m \in ErrorMessages }

SuccessContent == JSONstringify([success |-> TRUE])

\* ------------------------------------------------------------------------
\* JSON values, JSON.stringify and JSON.parse on the MCP wire
\* ------------------------------------------------------------------------
UNDEFINED == "undefined"

\* The object {}
EmptyObject == [key \in {} |-> ""]

\* A JSON value: an object (its fields), an array (its items) or null.
\* Numbers, booleans and strings are written as their JSON text.
Obj(fields) == [type |-> "object", fields |-> fields, items |-> << >>]
Arr(items) == [type |-> "array", fields |-> EmptyObject, items |-> items]
JsonNull == [type |-> "null", fields |-> EmptyObject, items |-> << >>]

\* obj.key: undefined when the object has no such property
Field(obj, key) == IF key \in DOMAIN obj THEN obj[key] ELSE UNDEFINED

\* JSON.stringify(value): a text. Properties whose value is undefined are
\* left out of the text; everything else is written as it is.
JSONstringifyValue(value) ==
  LET kept == { key \in DOMAIN value.fields : value.fields[key] # UNDEFINED }
  IN [json |-> TRUE,
      value |-> [type |-> value.type,
                 fields |-> [key \in kept |-> value.fields[key]],
                 items |-> value.items]]

\* A text that is not JSON
NotJson == [json |-> FALSE, value |-> JsonNull]

\* JSON.parse(text): the value the text denotes, or a SyntaxError
JSONparseText(text) ==
  IF text.json
    THEN [threw |-> FALSE, value |-> text.value]
    ELSE [threw |-> TRUE, value |-> JsonNull]

\* A content block of a tool result, and the result itself. isError is an
\* optional property: FALSE stands for its absence.
TextBlock(text) == [type |-> "text", text |-> text]

ToolResult(content, isError) == [content |-> content, isError |-> isError]

\* A tools/call request: params.name and params.arguments (hasArgs is FALSE
\* when the request carries no arguments property)
CallParams(name, hasArgs, args) == [name |-> name, hasArgs |-> hasArgs, args |-> args]

\* What the caller of a client call has got
NotDelivered == [kind |-> "none", value |-> JsonNull, message |-> ""]
DeliveredValue(value) == [kind |-> "returned", value |-> value, message |-> ""]
DeliveredError(message) == [kind |-> "thrown", value |-> JsonNull, message |-> message]

\* What the ERP system does during one dispatch: whether the access token is
\* granted, whether the first and the second request succeed, and the rows
\* of the listing query that succeeded
ErpReply(token, first, second, rows) ==
  [token |-> token, first |-> first, second |-> second, rows |-> rows]

\* The reply that is never consulted (demo mode, unknown tool)
NoReply == ErpReply(TRUE, TRUE, TRUE, << >>)

\* The session variables before anything was called
NoRequest == CallParams("", FALSE, EmptyObject)
NoResult == ToolResult(<< >>, FALSE)

\* ------------------------------------------------------------------------
\* CollectionsAgent: the steps of the operation behind each tool, in the
\* order the code awaits them
\* ------------------------------------------------------------------------
AgentSteps(name) ==
  CASE name = "get_prioritized_customers" ->
         << "getCustomersWithOutstandingBalance", "analyzeEachCustomer", "sort" >>
    [] name = "analyze_customer_risk" ->
         << "getARAgingData", "getPaymentHistory", "calculateRiskScore" >>
    [] name = "send_dunning_email" ->
         << "getARAgingData", "analyzeCustomerRisk", "generateDunningEmail",
            "sendEmail", "logCRMNote" >>
    [] name = "send_teams_notification" ->
         << "getARAgingData", "analyzeCustomerRisk", "generateTeamsMessage",
            "createChat", "sendTeamsMessage", "logCRMNote" >>
    [] name = "propose_payment_plan" ->
         << "getARAgingData", "proposePaymentPlan", "formatPaymentPlanForEmail",
            "sendEmail", "logCRMNote" >>
    [] name = "record_promise_to_pay" ->
         << "logCRMNote", "updateCustomerNotes" >>

\* Steps that read from the ERP system; they rethrow what the request throws
ErpReadSteps == {"getARAgingData", "getPaymentHistory", "analyzeCustomerRisk"}

\* Steps that call Microsoft Graph; they rethrow what the request throws
GraphSteps == {"sendEmail", "createChat", "sendTeamsMessage"}

\* The step that writes to the ERP system; it rethrows what the request throws
ErpWriteSteps == {"updateCustomerNotes"}

\* The steps that can throw. The others catch their own failures
\* (generateDunningEmail, generateTeamsMessage and calculateRiskScore fall
\* back to a template, getCustomersWithOutstandingBalance to an empty list,
\* analyzeEachCustomer logs and continues) or only compute and log.
FallibleSteps == ErpReadSteps \cup GraphSteps \cup ErpWriteSteps

\* The step that performs the irreversible external effect of a tool
EffectStep(name) ==
  CASE name \in {"send_dunning_email", "propose_payment_plan"} -> "sendEmail"
    [] name = "send_teams_notification" -> "sendTeamsMessage"
    [] name = "record_promise_to_pay" -> "updateCustomerNotes"
    [] OTHER -> "none"

Range(s) == { s[n] : n \in 1..Len(s) }

\* What the environment does to one execution: no failure (at = 0), or the
\* step at index `at` fails, either because the remote system reports an
\* error or because the connection to it is lost
NoFailure == [at |-> 0, kind |-> "none"]

EnvOutcomes(name) ==
  IF name \notin TOOLS
    THEN {NoFailure}
    ELSE {NoFailure} \cup
         { [at |-> j, kind |-> kd] :
             j \in { n \in 1..Len(AgentSteps(name)) : AgentSteps(name)[n] \in FallibleSteps },
             kd \in {"error", "transport"} }

ErrorMessage(step, kind) ==
  CASE kind = "transport" -> "Connection closed"
    [] step \in GraphSteps -> "Failed to send"
    [] step \in ErpWriteSteps -> "Failed to update"
    [] OTHER -> "Failed to fetch"

\* Faulty variant of AgentRun: a failing Graph step is logged and not rethrown
AgentRunSwallow(name, env) ==
  LET steps == AgentSteps(name) IN
    IF env.at = 0
      THEN [threw |-> FALSE, message |-> "", done |-> steps]
      ELSE IF steps[env.at] \in GraphSteps
        THEN [threw |-> FALSE, message |-> "",
              done |-> SubSeq(steps, 1, env.at - 1) \o SubSeq(steps, env.at + 1, Len(steps))]
        ELSE [threw |-> TRUE, message |-> ErrorMessage(steps[env.at], env.kind),
              done |-> SubSeq(steps, 1, env.at - 1)]

\* One run of the agent operation behind `name`: the steps completed, and
\* whether and with which message the operation threw
AgentRun(name, env) ==
  LET steps == AgentSteps(name) IN
    IF env.at = 0
      THEN [threw |-> FALSE, message |-> "", done |-> steps]
      ELSE [threw |-> TRUE, message |-> ErrorMessage(steps[env.at], env.kind),
            done |-> SubSeq(steps, 1, env.at - 1)]

\* ------------------------------------------------------------------------
\* CollectionsChat.executeTool
\* ------------------------------------------------------------------------
\* The case labels of the switch in executeTool
ExecuteToolCases ==
  { "get_prioritized_customers", "analyze_customer_risk", "send_dunning_email",
    "propose_payment_plan", "send_teams_notification", "record_promise_to_pay" }

ExecuteTool(name, env) ==
  IF name \notin ExecuteToolCases
    THEN [threw |-> TRUE, value |-> [error |-> "Unknown tool"], done |-> << >>]
    ELSE LET run == AgentRun(name, env) IN
      IF run.threw
        THEN [threw |-> TRUE, value |-> [error |-> run.message], done |-> run.done]
        ELSE [threw |-> FALSE,
              value |-> CASE name = "get_prioritized_customers" -> [data |-> "customers"]
                          [] name = "analyze_customer_risk" -> [data |-> "riskScore"]
                          [] OTHER -> [success |-> TRUE],
              done |-> run.done]

\* ------------------------------------------------------------------------
\* CollectionsChat.sendMessage
\* ------------------------------------------------------------------------
Returned(text) == [kind |-> "returned", value |-> text]
Thrown(what) == [kind |-> "thrown", value |-> what]
Pending == [kind |-> "pending", value |-> ""]
NotCalled == [kind |-> "none", value |-> ""]

\* Faulty variant of LoopContinues: the bound is compared two steps too late
LoopContinuesLate(n) == n <= MAX_ITERATIONS + 1

\* for (let i = 0; i < MAX_ITERATIONS; i++)
LoopContinues(n) == n < MAX_ITERATIONS

\* Faulty variant of IsFinalTurn: any turn that carries text ends the loop
IsFinalTurnOnText(message) == Len(message.tool_calls) = 0 \/ message.content # NULL

\* if (!message.tool_calls || message.tool_calls.length === 0)
IsFinalTurn(message) == Len(message.tool_calls) = 0

\* return message.content ?? ''
FinalText(message) == IF message.content = NULL THEN "" ELSE message.content

\* Faulty variant of PushUser: every sendMessage starts a fresh conversation
PushUserFresh(h) == << SystemMessage, UserMessage >>

\* this.history.push({ role: 'user', content: userMessage })
PushUser(h) == Append(h, UserMessage)

\* Faulty variant of StartTool: the remaining intents are all started at once
\* (Promise.all over message.tool_calls)
StartToolAll ==
  /\ pc = "toolLoop"
  /\ k <= Len(calls)
  /\ IF JSONparse(calls[k].arguments).threw
       THEN /\ pc' = "idle"
            /\ outcome' = Thrown("SyntaxError")
            /\ UNCHANGED << inFlight, toolLog >>
       ELSE /\ pc' = "awaitTool"
            /\ inFlight' = { calls[n].id : n \in k..Len(calls) }
            /\ toolLog' = Append(toolLog, calls[k].id)
            /\ UNCHANGED outcome
  /\ UNCHANGED << history, i, calls, k, modelCalls, effects, auditNotes, lostConnections, nextId,
                  userMessages, multiTurns, deviations, scriptTool >>

\* sendMessage is called: push the user message, enter the loop and suspend
\* on the first completions.create.
SendMessage ==
  /\ pc = "idle"
  /\ userMessages < MaxUserMessages
  /\ userMessages' = userMessages + 1
  /\ history' = PushUser(history)
  /\ i' = 0
  /\ calls' = << >>
  /\ k' = 0
  /\ IF LoopContinues(0)
       THEN pc' = "awaitModel" /\ modelCalls' = 1 /\ outcome' = Pending
       ELSE pc' = "idle" /\ modelCalls' = 0 /\ outcome' = Returned(FALLBACK)
  /\ UNCHANGED << inFlight, toolLog, effects, auditNotes, lostConnections, nextId, multiTurns,
                  deviations, scriptTool >>

\* The turns the model may produce. A plain turn requests scriptTool once,
\* with well-formed arguments and no text; a plain final turn has text.
IntentsOf(names, args) ==
  [ n \in 1..Len(names) |->
      [id |-> nextId + n - 1, name |-> names[n], arguments |-> args[n]] ]

ToolTurns ==
  UNION { { AssistantMessage(c, IntentsOf(names, args)) :
              c \in {NULL, "Let me check."},
              names \in [1..n -> {scriptTool}],
              args \in [1..n -> ArgStrings] } : n \in 1..MaxIntents }

FinalTurns == { AssistantMessage(c, << >>) : c \in {NULL, "Here is the summary."} }

\* The iterations of the sendMessage loop at which the environment may leave
\* the plain script (the first, the second and the last one); at every other
\* iteration the model requests scriptTool once and the tool succeeds
ActiveIterations == {0, 1, MAX_ITERATIONS - 1}

PlainTurn == AssistantMessage(NULL, IntentsOf(<< scriptTool >>, << WellFormedArgs >>))

\* The departures from the plain script a turn contains
TurnDeviations(message) ==
  IF Len(message.tool_calls) = 0
    THEN IF message.content = NULL THEN 1 ELSE 0
    ELSE (IF message.content = NULL THEN 0 ELSE 1)
         + Cardinality({ n \in 1..Len(message.tool_calls) :
                           message.tool_calls[n].arguments = MalformedArgs })

\* completions.create resolves with the model's turn: push it, then return
\* its text when it requests no tool, else enter the loop over its intents.
ModelResponds(message) ==
  /\ pc = "awaitModel"
  /\ i \notin ActiveIterations => message = PlainTurn
  /\ deviations + TurnDeviations(message) <= MaxDeviations
  /\ Len(message.tool_calls) > 1 => multiTurns < MaxMultiTurns
  /\ deviations' = deviations + TurnDeviations(message)
  /\ multiTurns' = IF Len(message.tool_calls) > 1 THEN multiTurns + 1 ELSE multiTurns
  /\ nextId' = nextId + Len(message.tool_calls)
  /\ history' = Append(history, message)
  /\ calls' = message.tool_calls
  /\ IF IsFinalTurn(message)
       THEN /\ pc' = "idle"
            /\ outcome' = Returned(FinalText(message))
            /\ UNCHANGED k
       ELSE /\ pc' = "toolLoop"
            /\ k' = 1
            /\ UNCHANGED outcome
  /\ UNCHANGED << i, inFlight, modelCalls, toolLog, effects, auditNotes, lostConnections,
                  userMessages, scriptTool >>

\* completions.create rejects: sendMessage has no handler around it
ModelRejects ==
  /\ pc = "awaitModel"
  /\ i \in ActiveIterations
  /\ deviations < MaxDeviations
  /\ deviations' = deviations + 1
  /\ pc' = "idle"
  /\ outcome' = Thrown("APIError")
  /\ UNCHANGED << history, i, calls, k, inFlight, modelCalls, toolLog, effects, auditNotes,
                  lostConnections, nextId, userMessages, multiTurns, scriptTool >>

\* The body of the inner loop for the intent at index k, up to its await:
\* JSON.parse the arguments (a SyntaxError leaves sendMessage), then invoke
\* executeTool and suspend on its promise.
StartTool ==
  /\ pc = "toolLoop"
  /\ k <= Len(calls)
  /\ IF JSONparse(calls[k].arguments).threw
       THEN /\ pc' = "idle"
            /\ outcome' = Thrown("SyntaxError")
            /\ UNCHANGED << inFlight, toolLog >>
       ELSE /\ pc' = "awaitTool"
            /\ inFlight' = {calls[k].id}
            /\ toolLog' = Append(toolLog, calls[k].id)
            /\ UNCHANGED outcome
  /\ UNCHANGED << history, i, calls, k, modelCalls, effects, auditNotes, lostConnections, nextId,
                  userMessages, multiTurns, deviations, scriptTool >>

\* Faulty variant of CatchToolError: no try/catch around executeTool
CatchToolErrorMissing(exec) == [threw |-> exec.threw, value |-> exec.value]

\* try { result = await this.executeTool(...) } catch (err) { result = { error } }
\* Every rejection of executeTool, whatever its cause, becomes a result; what
\* is left to propagate out of sendMessage (threw) is nothing.
CatchToolError(exec) == [threw |-> FALSE, value |-> exec.value]

\* Faulty variant of NextIndex: a failed call is issued again
NextIndexRetry(exec, idx) == IF exec.threw THEN idx ELSE idx + 1

\* Faulty variant of NextIndex: the inner loop stops after the first settled call
NextIndexBreak(exec, idx) == Len(calls) + 1

\* for (const toolCall of message.tool_calls): the index handled after idx
NextIndex(exec, idx) == idx + 1

\* executeTool settles: build the result, push the tool message and go back
\* to the head of the inner loop.
ToolCompletes(env) ==
  /\ pc = "awaitTool"
  /\ env.at # 0 => i \in ActiveIterations /\ deviations < MaxDeviations
  /\ deviations' = IF env.at # 0 THEN deviations + 1 ELSE deviations
  /\ LET call == calls[k]
         exec == ExecuteTool(call.name, env)
         caught == CatchToolError(exec)
     IN /\ effects' = IF EffectStep(call.name) \in Range(exec.done)
                        THEN effects \cup {call.id} ELSE effects
        /\ auditNotes' = IF "logCRMNote" \in Range(exec.done)
                           THEN auditNotes \cup {call.id} ELSE auditNotes
        /\ lostConnections' = IF env.kind = "transport"
                                THEN lostConnections \cup {call.id} ELSE lostConnections
        /\ inFlight' = inFlight \ {call.id}
        /\ IF caught.threw
             THEN /\ pc' = "idle"
                  /\ outcome' = Thrown(caught.value.error)
                  /\ UNCHANGED << history, k >>
             ELSE /\ history' = Append(history, ToolMessage(call.id, JSONstringify(caught.value)))
                  /\ pc' = "toolLoop"
                  /\ k' = NextIndex(exec, k)
                  /\ UNCHANGED outcome
  /\ UNCHANGED << i, calls, modelCalls, toolLog, nextId, userMessages, multiTurns,
                  scriptTool >>

\* Faulty variant of EndTurn: the fallback text is pushed to the history
EndTurnPushingFallback ==
  /\ pc = "toolLoop"
  /\ k > Len(calls)
  /\ i' = i + 1
  /\ IF LoopContinues(i + 1)
       THEN /\ pc' = "awaitModel"
            /\ modelCalls' = modelCalls + 1
            /\ UNCHANGED << outcome, history >>
       ELSE /\ pc' = "idle"
            /\ outcome' = Returned(FALLBACK)
            /\ history' = Append(history, AssistantMessage(FALLBACK, << >>))
            /\ UNCHANGED modelCalls
  /\ UNCHANGED << calls, k, inFlight, toolLog, effects, auditNotes, lostConnections, nextId,
                  userMessages, multiTurns, deviations, scriptTool >>

\* The inner loop is over: i++, then either the next completions.create or,
\* when the bound is reached, the fallback return.
EndTurn ==
  /\ pc = "toolLoop"
  /\ k > Len(calls)
  /\ i' = i + 1
  /\ IF LoopContinues(i + 1)
       THEN /\ pc' = "awaitModel"
            /\ modelCalls' = modelCalls + 1
            /\ UNCHANGED outcome
       ELSE /\ pc' = "idle"
            /\ outcome' = Returned(FALLBACK)
            /\ UNCHANGED modelCalls
  /\ UNCHANGED << history, calls, k, inFlight, toolLog, effects, auditNotes, lostConnections, nextId,
                  userMessages, multiTurns, deviations, scriptTool >>

\* The MCP session before anything was called on it
SessionFresh ==
  /\ client = NULL
  /\ processes = {}
  /\ spawned = 0
  /\ requests = 0
  /\ closes = 0
  /\ lastRequest = NoRequest
  /\ lastResult = NoResult
  /\ lastOps = << >>
  /\ lastDelivered = NotDelivered
  /\ catalogs = {}
  /\ failures = 0
  /\ lastClose = "none"
  /\ lastMethod = "none"
  /\ lastThrown = NULL
  /\ lastReturned = JsonNull
  /\ lastReply = NoReply

\* Part 1 leaves the MCP session alone
SessionUnused == demoMode = FALSE /\ SessionFresh

\* No get_prioritized_customers call is being looked at
NotPrioritized == [kind |-> "none", customers |-> << >>]

NoTopN == [given |-> FALSE, value |-> 0]

PrioUnused ==
  /\ erpCustomers = [fails |-> FALSE, customers |-> << >>]
  /\ topN = NoTopN
  /\ prioritized = NotPrioritized

\* What an example function of collections-workflow.ts finds
ExampleEnv(customers, riskLevel, customerEmail, collectionsEmail) ==
  [customers |-> customers, riskLevel |-> riskLevel, customerEmail |-> customerEmail,
   collectionsEmail |-> collectionsEmail]

\* No example function runs
WfUnused ==
  /\ example = "none"
  /\ exampleEnv = ExampleEnv(0, "low", FALSE, FALSE)
  /\ agentCalls = << >>
  /\ exampleStatus = "returned"

\* The last line of the chat CLI and what its handler did with it:
\* dropped | prompted | closed | sent
HandledLine(kind, handling) == [kind |-> kind, handling |-> handling]

NoLine == HandledLine("none", "none")

\* The chat CLI after main() has set up its handler
CliFresh ==
  /\ processing = FALSE
  /\ paused = FALSE
  /\ rlClosed = FALSE
  /\ sendsInFlight = 0
  /\ closesInFlight = 0
  /\ linesSeen = 0
  /\ lastLine = NoLine
  /\ cliLog = << >>

\* No chat CLI runs
CliUnused == CliFresh

\* The REST API server right after app.listen
ApiFresh ==
  /\ shutdowns = << >>
  /\ serverState = "listening"
  /\ connections = 0
  /\ apiChild = FALSE
  /\ exited = FALSE

\* The other parts leave the REST API server alone
ApiUnused == ApiFresh

\* No step of a command has failed
NoStepFailure == [at |-> 0, how |-> "none"]

\* A command right after main() picked it: connecting, nothing done
CmdFresh ==
  /\ cmdStatus = "connecting"
  /\ cmdConnected = FALSE
  /\ stepsDone = << >>
  /\ cmdFailure = NoStepFailure
  /\ clientCloses = 0
  /\ cmdThrown = "none"

\* The other parts run no command of the MCP client example
CmdUnused ==
  /\ command = "none"
  /\ CmdFresh

\* A batch operation that has just been called
BatchFresh ==
  /\ batchAt = 1
  /\ visited = << >>
  /\ collected = << >>
  /\ batchStatus = "fetching"

\* The other parts run no batch operation
BatchUnused ==
  /\ batchOp = "none"
  /\ fetched = << >>
  /\ BatchFresh

\* A summary that has just been called
SummaryFresh ==
  /\ filterName = "fulfilled"
  /\ filterAt = 1
  /\ counted = [fulfilled |-> 0, broken |-> 0, pending |-> 0]

\* The other parts summarize no promises
PromiseUnused ==
  /\ promises = << >>
  /\ clock = 0
  /\ SummaryFresh

\* The totals and entries before the first invoice
AgingStart ==
  [totalOutstanding |-> 0, current |-> 0, days30 |-> 0, days60 |-> 0,
   days90 |-> 0, days120Plus |-> 0, invoices |-> << >>]

\* An aging computation that has just been called
AgingFresh ==
  /\ agingAt = 1
  /\ erpAging = AgingStart
  /\ mcpAging = AgingStart
  /\ agingDone = FALSE

\* The other parts compute no aging
AgingUnused ==
  /\ d365Invoices = << >>
  /\ AgingFresh

\* ------------------------------------------------------------------------
\* The chat specification
\* ------------------------------------------------------------------------
Init ==
  /\ history = << SystemMessage >>
  /\ pc = "idle"
  /\ i = 0
  /\ calls = << >>
  /\ k = 0
  /\ inFlight = {}
  /\ outcome = NotCalled
  /\ modelCalls = 0
  /\ toolLog = << >>
  /\ effects = {}
  /\ auditNotes = {}
  /\ lostConnections = {}
  /\ nextId = 1
  /\ userMessages = 0
  /\ multiTurns = 0
  /\ deviations = 0
  /\ scriptTool \in ModelToolNames
  /\ SessionUnused
  /\ PrioUnused
  /\ WfUnused
  /\ CliUnused
  /\ ApiUnused
  /\ CmdUnused
  /\ BatchUnused
  /\ PromiseUnused
  /\ AgingUnused

Next ==
  \/ SendMessage /\ UNCHANGED notChat
  \/ /\ \E message \in ToolTurns \cup FinalTurns : ModelResponds(message)
     /\ UNCHANGED notChat
  \/ ModelRejects /\ UNCHANGED notChat
  \/ StartTool /\ UNCHANGED notChat
  \/ /\ pc = "awaitTool"
     /\ \E env \in EnvOutcomes(calls[k].name) : ToolCompletes(env)
     /\ UNCHANGED notChat
  \/ EndTurn /\ UNCHANGED notChat

Spec == Init /\ [][Next]_vars

\* ------------------------------------------------------------------------
\* Properties of the orchestrator
\* ------------------------------------------------------------------------
Last(h) == h[Len(h)]

IsPrefix(a, b) == Len(a) <= Len(b) /\ SubSeq(b, 1, Len(a)) = a

Occurrences(s, x) == Cardinality({ n \in 1..Len(s) : s[n] = x })

\* The positions of h that hold an assistant message with tool-call intents
ToolTurnPositions(h) ==
  { p \in 1..Len(h) : h[p].role = "assistant" /\ Len(h[p].tool_calls) > 0 }

\* The intent with the given id, looked up in the assistant messages of h
IntentById(h, id) ==
  LET p == CHOOSE q \in ToolTurnPositions(h) :
             \E n \in 1..Len(h[q].tool_calls) : h[q].tool_calls[n].id = id
      n == CHOOSE m \in 1..Len(h[p].tool_calls) : h[p].tool_calls[m].id = id
  IN h[p].tool_calls[n]

\* The tool turn at position p of h is followed by exactly one tool message
\* per intent, in the order of the intents, and by no further tool message
ResultsFollow(h, p) ==
  LET n == Len(h[p].tool_calls) IN
    /\ p + n <= Len(h)
    /\ \A j \in 1..n :
         /\ h[p + j].role = "tool"
         /\ h[p + j].tool_call_id = h[p].tool_calls[j].id
    /\ p + n < Len(h) => h[p + n + 1].role # "tool"

\* C1: sendMessage makes at most MAX_ITERATIONS + 1 model calls, whatever the
\* model answers, and once the loop counter has reached the bound it has
\* returned the non-empty fallback text as a normal return value.
C1_BoundedModelCalls ==
  /\ modelCalls <= MAX_ITERATIONS + 1
  /\ i <= MAX_ITERATIONS
  /\ i = MAX_ITERATIONS =>
       /\ pc = "idle"
       /\ outcome.kind = "returned"
       /\ outcome.value = FALLBACK
       /\ outcome.value # ""

\* C1 witness: a model that requested tools on every turn was stopped by the bound
C1_Witness ==
  /\ pc = "idle"
  /\ i = MAX_ITERATIONS
  /\ modelCalls = MAX_ITERATIONS
  /\ outcome = Returned(FALLBACK)
  /\ Len(toolLog) >= MAX_ITERATIONS

\* C2: in the history sent with every model call, each assistant message with
\* tool-call intents is directly followed by exactly one tool message per
\* intent, in the order of the intents, with nothing interleaved.
C2_ResultsFollowIntents ==
  pc = "awaitModel" => \A p \in ToolTurnPositions(history) : ResultsFollow(history, p)

\* C3: executeTool is invoked at most once for each tool-call intent, also
\* after the call failed.
C3_AtMostOnce ==
  \A n \in 1..Len(toolLog) : Occurrences(toolLog, toolLog[n]) = 1

\* C3 witness: a call failed, its error was fed back and the loop went on
\* to the next model call without invoking the tool again
C3_Witness ==
  /\ pc = "awaitModel"
  /\ i > 0
  /\ Last(history).role = "tool"
  /\ Last(history).content \in ErrorContents
  /\ Occurrences(toolLog, Last(history).tool_call_id) = 1

\* C4: within one sendMessage the model is queried again only when every
\* intent of the current turn has been executed and answered: the history
\* ends with the assistant turn followed by one tool message per intent,
\* each carrying the id of its intent.
C4_AllAnsweredBeforeNextCall ==
  (pc = "awaitModel" /\ i > 0) =>
    LET n == Len(calls)
        p == Len(history) - n
    IN /\ n > 0
       /\ p >= 1
       /\ history[p].role = "assistant"
       /\ history[p].tool_calls = calls
       /\ \A j \in 1..n :
            /\ history[p + j].role = "tool"
            /\ history[p + j].tool_call_id = calls[j].id
            /\ Occurrences(toolLog, calls[j].id) >= 1
       /\ Cardinality({ q \in p + 1..Len(history) : history[q].role = "tool" }) = n

\* C4 witness: the model is queried again after a turn with two intents
C4_Witness ==
  /\ pc = "awaitModel"
  /\ i > 0
  /\ Len(calls) = 2
  /\ history[Len(history) - 1].tool_call_id = calls[1].id
  /\ Last(history).tool_call_id = calls[2].id

\* A step in which the awaited executeTool fails: the environment made one
\* of its steps fail, or the requested name is not a tool
ToolFails ==
  /\ pc = "awaitTool"
  /\ deviations' # deviations \/ calls[k].name \notin TOOLS

\* C5: a failed tool execution, an unknown tool name included, does not end
\* sendMessage: the step appends a tool message carrying the error for that
\* intent and hands control back to the loop over the intents, at the next
\* intent, with sendMessage still running; and sendMessage never ends by
\* throwing what a tool execution threw.
C5_ToolFailureIsFedBack ==
  /\ [][ ToolFails =>
           /\ Len(history') = Len(history) + 1
           /\ SubSeq(history', 1, Len(history)) = history
           /\ Last(history').role = "tool"
           /\ Last(history').tool_call_id = calls[k].id
           /\ Last(history').content \in ErrorContents
           /\ pc' = "toolLoop"
           /\ k' = k + 1
           /\ outcome' = Pending
       ]_vars
  /\ [](outcome.kind = "thrown" => outcome.value \in {"SyntaxError", "APIError"})

\* C5 witness: the first of two intents failed, its error is in the history
\* and the second intent is being executed
C5_Witness ==
  /\ pc = "awaitTool"
  /\ k = 2
  /\ Last(history).role = "tool"
  /\ Last(history).tool_call_id = calls[1].id
  /\ Last(history).content \in ErrorContents
  /\ inFlight = {calls[2].id}
  /\ outcome = Pending

\* C6: a model turn without tool-call intents ends sendMessage, which
\* returns the turn's text ('' when there is none) and invokes no tool; a
\* turn with intents never makes sendMessage return; so a return happens
\* only on a tool-free turn or when the bound is reached.
C6_ReturnOnToolFreeTurn ==
  /\ [][ (pc = "awaitModel" /\ history' # history) =>
           LET m == Last(history') IN
             IF Len(m.tool_calls) = 0
               THEN /\ pc' = "idle"
                    /\ outcome' = Returned(IF m.content = NULL THEN "" ELSE m.content)
                    /\ toolLog' = toolLog
               ELSE outcome'.kind # "returned"
       ]_vars
  /\ [](outcome.kind = "returned" =>
          \/ i = MAX_ITERATIONS /\ outcome.value = FALLBACK
          \/ /\ Last(history).role = "assistant"
             /\ Len(Last(history).tool_calls) = 0)

\* C6 witness: after a tool turn that also carried text, a later tool-free
\* turn ended sendMessage with its text
C6_Witness ==
  /\ pc = "idle"
  /\ outcome = Returned("Here is the summary.")
  /\ i > 0
  /\ \E p \in ToolTurnPositions(history) : history[p].content # NULL

\* C7: at most one executeTool is pending at any time, it is the one of the
\* intent being processed, and the results of all earlier intents of the
\* turn have already been appended.
C7_OneToolInFlight ==
  /\ Cardinality(inFlight) <= 1
  /\ pc # "awaitTool" => inFlight = {}
  /\ pc = "awaitTool" =>
       /\ inFlight = {calls[k].id}
       /\ Len(history) >= k
       /\ history[Len(history) - k + 1].tool_calls = calls
       /\ \A j \in 1..k - 1 :
            /\ history[Len(history) - k + 1 + j].role = "tool"
            /\ history[Len(history) - k + 1 + j].tool_call_id = calls[j].id

\* C7 witness: the second intent of a turn is in flight, the first has been answered
C7_Witness ==
  /\ pc = "awaitTool"
  /\ Len(calls) = 2
  /\ k = 2
  /\ inFlight = {calls[2].id}
  /\ Last(history).tool_call_id = calls[1].id

\* C8: the history only grows: every step leaves the existing entries in
\* place and unchanged.
C8_AppendOnly == [][IsPrefix(history, history')]_vars

\* C8 witness: a second sendMessage has appended its user message after the
\* entries of the first one
C8_Witness ==
  /\ userMessages = 2
  /\ Len(history) > 4
  /\ Last(history) = UserMessage

\* C9: a tool call that loses its connection aborts sendMessage, which
\* throws to its caller.
C9_LostConnectionAborts ==
  [][ lostConnections' # lostConnections => outcome'.kind = "thrown" ]_vars

\* The tool messages of h that answer an intent for a side-effecting tool
SideEffectResults(h) ==
  { q \in 1..Len(h) :
      /\ h[q].role = "tool"
      /\ IntentById(h, h[q].tool_call_id).name \in SideEffecting }

MaxRequests == 3
\* close() calls in one run
MaxCloses == 2
\* rows in one reply of the ERP system to a listing query
MaxRows == 2

\* The names dispatched by the call-tool handler, in the order of tools/list
ToolNames ==
  << "get_ar_aging_data", "get_payment_history",
     "get_customers_with_outstanding_balance", "update_customer_notes" >>

\* A name a request may carry that is not registered
UnregisteredTool == "drop_all_invoices"

RequestNames == Range(ToolNames) \cup {UnregisteredTool}

RequestCustomerId == "CUST-002"

NoteText == "Promised payment by Friday"

\* The arguments objects a request for `name` may carry: none of the
\* properties the tool reads, some of them, all of them
ArgObjects(name) ==
  CASE name \in {"get_ar_aging_data", "get_payment_history"} ->
         {EmptyObject, [customerId |-> RequestCustomerId]}
    [] name = "update_customer_notes" ->
         {EmptyObject, [customerId |-> RequestCustomerId],
          [customerId |-> RequestCustomerId, note |-> NoteText]}
    [] OTHER -> {EmptyObject}

CallRequests ==
  UNION { { CallParams(name, TRUE, args) : args \in ArgObjects(name) }
            \cup {CallParams(name, FALSE, EmptyObject)} : name \in RequestNames }

\* ------------------------------------------------------------------------
\* The ERP system as the server sees it (production mode)
\* ------------------------------------------------------------------------
SeqsUpTo(S, n) == UNION { [1..m -> S] : m \in 0..n }

\* invoices?$select=_customerid_value: one row per invoice, so a customer
\* occurs once per invoice, and the lookup may be null
InvoiceRows == SeqsUpTo({"ACC-1", "ACC-2", NULL}, MaxRows)

\* accounts?$select=accountid: one row per account; accountid is the key
\* of the account entity, so no value occurs twice
AccountRows ==
  { r \in SeqsUpTo({"ACC-1", "ACC-2"}, MaxRows) :
      \A a, b \in 1..Len(r) : r[a] = r[b] => a = b }

ErpReplies(name, demo) ==
  IF demo \/ name \notin Range(ToolNames)
    THEN {NoReply}
    ELSE IF name = "get_customers_with_outstanding_balance"
      THEN {ErpReply(FALSE, FALSE, FALSE, << >>), ErpReply(TRUE, FALSE, FALSE, << >>)}
             \cup { ErpReply(TRUE, TRUE, TRUE, r) : r \in InvoiceRows }
             \cup { ErpReply(TRUE, FALSE, TRUE, r) : r \in AccountRows }
      ELSE {ErpReply(FALSE, FALSE, FALSE, << >>), ErpReply(TRUE, FALSE, FALSE, << >>),
            ErpReply(TRUE, TRUE, FALSE, << >>), NoReply}

TokenError == "ClientSecretCredential authentication failed"
RequestError == "Request failed with status code 500"
TypeError == "Cannot read properties of undefined"

\* ------------------------------------------------------------------------
\* The data functions of the server. Each yields what it returned or threw
\* and the operations it ran (ops).
\* ------------------------------------------------------------------------
Done(value, ops) == [threw |-> FALSE, message |-> "", value |-> value, ops |-> ops]
Failed(message, ops) == [threw |-> TRUE, message |-> message, value |-> JsonNull, ops |-> ops]

\* data[customerId] ?? data['CUST-001']
getMockARAgingData(customerId) ==
  CASE customerId = "CUST-002" ->
         Obj([customerId |-> "CUST-002", customerName |-> "Fabrikam Inc",
              totalOutstanding |-> "85000"])
    [] customerId = "CUST-003" ->
         Obj([customerId |-> "CUST-003", customerName |-> "Adventure Works",
              totalOutstanding |-> "200000"])
    [] OTHER ->
         Obj([customerId |-> "CUST-001", customerName |-> "Contoso Ltd",
              totalOutstanding |-> "125000"])

getMockPaymentHistory(customerId) ==
  Obj([customerId |-> customerId, averagePaymentDays |-> "35", totalTransactions |-> "12"])

getARAgingData(customerId, demo, reply) ==
  IF demo
    THEN Done(getMockARAgingData(customerId), << "getMockARAgingData" >>)
    ELSE IF ~reply.token
      THEN Failed(TokenError, << "getAccessToken" >>)
      ELSE IF ~reply.first
        THEN Failed(RequestError, << "getAccessToken", "GET accounts" >>)
        ELSE IF ~reply.second
          THEN Failed(RequestError, << "getAccessToken", "GET accounts", "GET invoices" >>)
          ELSE Done(Obj([customerId |-> customerId, customerName |-> "Unknown Customer",
                         totalOutstanding |-> "0"]),
                    << "getAccessToken", "GET accounts", "GET invoices" >>)

getPaymentHistory(customerId, demo, reply) ==
  IF demo
    THEN Done(getMockPaymentHistory(customerId), << "getMockPaymentHistory" >>)
    ELSE IF ~reply.token
      THEN Failed(TokenError, << "getAccessToken" >>)
      ELSE IF ~(reply.first /\ reply.second)
        THEN Failed(RequestError, << "getAccessToken", "GET tasks", "GET appointments" >>)
        ELSE Done(Obj([customerId |-> customerId, averagePaymentDays |-> "30",
                       totalTransactions |-> "0"]),
                  << "getAccessToken", "GET tasks", "GET appointments" >>)

\* Faulty variant of CustomerIdsOf: the ids are collected in an array
CustomerIdsOfArray(rows) == SelectSeq(rows, LAMBDA r : r # NULL)

\* const ids = new Set(); for (inv of rows) if (inv._customerid_value)
\* ids.add(...); Array.from(ids): the non-null ids in the order of their
\* first occurrence
RECURSIVE CustomerIdsOf(_)
CustomerIdsOf(rows) ==
  IF rows = << >>
    THEN << >>
    ELSE LET before == CustomerIdsOf(SubSeq(rows, 1, Len(rows) - 1))
             row == rows[Len(rows)]
         IN IF row = NULL \/ row \in Range(before) THEN before ELSE Append(before, row)

getCustomersWithOutstandingBalance(demo, reply) ==
  IF demo
    THEN Done(Arr(<< "CUST-001", "CUST-002", "CUST-003" >>), << >>)
    ELSE IF ~reply.token
      THEN Failed(TokenError, << "getAccessToken" >>)
      ELSE IF reply.first
        THEN Done(Arr(CustomerIdsOf(reply.rows)), << "getAccessToken", "GET invoices" >>)
        ELSE IF reply.second
          THEN Done(Arr(reply.rows), << "getAccessToken", "GET invoices", "GET accounts" >>)
          ELSE Failed(RequestError, << "getAccessToken", "GET invoices", "GET accounts" >>)

updateCustomerNotes(customerId, note, demo, reply) ==
  IF demo
    THEN Done(JsonNull, << "updateCustomerNotes (demo)" >>)
    ELSE IF ~reply.token
      THEN Failed(TokenError, << "getAccessToken" >>)
      ELSE IF ~reply.first
        THEN Failed(RequestError, << "getAccessToken", "PATCH accounts" >>)
        ELSE Done(JsonNull, << "getAccessToken", "PATCH accounts" >>)

\* ------------------------------------------------------------------------
\* The request handlers of the server
\* ------------------------------------------------------------------------
\* One entry of the tools/list result: the name and inputSchema.required
Tool(name, required) == [name |-> name, required |-> required]

\* Faulty variant of ToolCatalog: a tool is advertised that has no case
ToolCatalogWithExtra ==
  << Tool("get_ar_aging_data", {"customerId"}),
     Tool("get_payment_history", {"customerId"}),
     Tool("get_customers_with_outstanding_balance", {}),
     Tool("update_customer_notes", {"customerId", "note"}),
     Tool("drop_all_invoices", {}) >>

ToolCatalog ==
  << Tool("get_ar_aging_data", {"customerId"}),
     Tool("get_payment_history", {"customerId"}),
     Tool("get_customers_with_outstanding_balance", {}),
     Tool("update_customer_notes", {"customerId", "note"}) >>

\* Faulty variant of ListToolsHandler: tools are unregistered after a failure
ListToolsHandlerAfterFailure ==
  IF failures > 0 THEN SubSeq(ToolCatalog, 1, 3) ELSE ToolCatalog

\* server.setRequestHandler(ListToolsRequestSchema, async () => ({ tools: [...] }))
ListToolsHandler == ToolCatalog

\* Faulty variant of UnknownToolError: the message does not name the tool
UnknownToolErrorPlain(name) == "Unknown tool"

\* new Error(`Unknown tool: ${name}`)
UnknownToolError(name) == "Unknown tool: " \o name

\* The switch of the call-tool handler. args.customerId on a request
\* without arguments is a TypeError.
RunTool(params, demo, reply) ==
  LET name == params.name
      args == params.args
  IN CASE name = "get_ar_aging_data" ->
            IF ~params.hasArgs
              THEN Failed(TypeError, << >>)
              ELSE getARAgingData(Field(args, "customerId"), demo, reply)
       [] name = "get_payment_history" ->
            IF ~params.hasArgs
              THEN Failed(TypeError, << >>)
              ELSE getPaymentHistory(Field(args, "customerId"), demo, reply)
       [] name = "get_customers_with_outstanding_balance" ->
            getCustomersWithOutstandingBalance(demo, reply)
       [] name = "update_customer_notes" ->
            IF ~params.hasArgs
              THEN Failed(TypeError, << >>)
              ELSE LET run == updateCustomerNotes(Field(args, "customerId"),
                                                  Field(args, "note"), demo, reply)
                   IN IF run.threw THEN run ELSE Done(Obj([success |-> "true"]), run.ops)
       [] OTHER -> Failed(UnknownToolError(name), << >>)

\* Faulty variant of SuccessResult: a status block precedes the data
SuccessResultWithStatus(value) ==
  ToolResult(<< TextBlock(JSONstringifyValue(Obj([status |-> "ok"]))),
                TextBlock(JSONstringifyValue(value)) >>, FALSE)

\* return { content: [{ type: 'text', text: JSON.stringify(data) }] }
SuccessResult(value) == ToolResult(<< TextBlock(JSONstringifyValue(value)) >>, FALSE)

ErrorResult(message) ==
  ToolResult(<< TextBlock(JSONstringifyValue(Obj([error |-> message]))) >>, TRUE)

\* Faulty variant of CatchHandlerError: no try/catch in the call-tool handler
CatchHandlerErrorMissing(run) ==
  [rejected |-> run.threw,
   result |-> IF run.threw THEN NoResult ELSE SuccessResult(run.value)]

\* try { switch ... } catch (error) { return { content: [...], isError: true } }
\* What the handler's promise settles with: never a rejection.
CatchHandlerError(run) ==
  [rejected |-> FALSE,
   result |-> IF run.threw THEN ErrorResult(run.message) ELSE SuccessResult(run.value)]

\* server.setRequestHandler(CallToolRequestSchema, async (request) => ...)
CallToolHandler(params, demo, reply) ==
  LET run == RunTool(params, demo, reply)
      settled == CatchHandlerError(run)
  IN [rejected |-> settled.rejected, result |-> settled.result, ops |-> run.ops,
      thrown |-> IF run.threw THEN run.message ELSE NULL,
      returned |-> run.value]

\* ------------------------------------------------------------------------
\* The client
\* ------------------------------------------------------------------------
\* What client.callTool rejects with when the handler rejected
McpError == "MCP error -32603"

\* Faulty variant of parseToolResult: the payload is returned unexamined
parseToolResultUnchecked(result, toolName) ==
  IF Len(result.content) = 0 \/ result.content[1].type # "text"
    THEN DeliveredError("Unexpected response from tool " \o toolName)
    ELSE LET parsed == JSONparseText(result.content[1].text)
         IN IF parsed.threw
              THEN DeliveredError("SyntaxError")
              ELSE DeliveredValue(parsed.value)

\* parseToolResult: the first content block must be a text block; its text
\* is parsed; an object with an `error` property is thrown as an Error with
\* that message; anything else is returned. isError is not read.
parseToolResult(result, toolName) ==
  IF Len(result.content) = 0 \/ result.content[1].type # "text"
    THEN DeliveredError("Unexpected response from tool " \o toolName)
    ELSE LET parsed == JSONparseText(result.content[1].text)
         IN IF parsed.threw
              THEN DeliveredError("SyntaxError")
              ELSE IF parsed.value.type = "object" /\ "error" \in DOMAIN parsed.value.fields
                THEN DeliveredError(parsed.value.fields["error"])
                ELSE DeliveredValue(parsed.value)

\* ------------------------------------------------------------------------
\* The session of the ERP connector: one child process, started on the
\* first call, reused by every later call, terminated by close()
\* ------------------------------------------------------------------------
\* Faulty variant of Connect: every call starts a server of its own
ConnectEveryCall ==
  /\ client' = "connected"
  /\ spawned' = spawned + 1
  /\ processes' = processes \cup {spawned + 1}

\* if (!this.client) { spawn the server, connect over stdio }
Connect ==
  IF client = NULL
    THEN /\ client' = "connected"
         /\ spawned' = spawned + 1
         /\ processes' = processes \cup {spawned + 1}
    ELSE UNCHANGED << client, spawned, processes >>

\* One tools/call round trip: the request goes to the server, the call-tool
\* handler settles, the client parses what came back.
CallTool(params, reply) ==
  /\ requests < MaxRequests
  /\ requests' = requests + 1
  /\ Connect
  /\ LET handled == CallToolHandler(params, demoMode, reply)
     IN /\ lastRequest' = params
        /\ lastResult' = handled.result
        /\ lastOps' = handled.ops
        /\ lastThrown' = handled.thrown
        /\ lastReturned' = handled.returned
        /\ lastReply' = reply
        /\ lastDelivered' = IF handled.rejected
                              THEN DeliveredError(McpError)
                              ELSE parseToolResult(handled.result, params.name)
        /\ failures' = IF handled.rejected \/ handled.result.isError
                         THEN failures + 1 ELSE failures
  /\ lastMethod' = "tools/call"
  /\ UNCHANGED << demoMode, closes, catalogs, lastClose >>
  /\ UNCHANGED notMcp

\* One tools/list round trip
ListTools ==
  /\ requests < MaxRequests
  /\ requests' = requests + 1
  /\ Connect
  /\ catalogs' = catalogs \cup {ListToolsHandler}
  /\ lastMethod' = "tools/list"
  /\ UNCHANGED << demoMode, closes, lastRequest, lastResult, lastOps, lastDelivered,
                  failures, lastClose, lastThrown, lastReturned, lastReply >>
  /\ UNCHANGED notMcp

\* Faulty variant of Close: the client is dropped, the process is left running
CloseLeaking ==
  /\ closes < MaxCloses
  /\ closes' = closes + 1
  /\ IF client # NULL
       THEN /\ client' = NULL
            /\ lastClose' = "terminated"
            /\ UNCHANGED processes
       ELSE /\ lastClose' = "noop"
            /\ UNCHANGED << client, processes >>
  /\ UNCHANGED << demoMode, spawned, requests, lastRequest, lastResult, lastOps,
                  lastDelivered, catalogs, failures, lastMethod, lastThrown,
                  lastReturned, lastReply >>
  /\ UNCHANGED notMcp

\* close(): terminate the child process and drop the client; nothing to do
\* when there is none
Close ==
  /\ closes < MaxCloses
  /\ closes' = closes + 1
  /\ IF client # NULL
       THEN /\ client' = NULL
            /\ processes' = {}
            /\ lastClose' = "terminated"
       ELSE /\ lastClose' = "noop"
            /\ UNCHANGED << client, processes >>
  /\ UNCHANGED << demoMode, spawned, requests, lastRequest, lastResult, lastOps,
                  lastDelivered, catalogs, failures, lastMethod, lastThrown,
                  lastReturned, lastReply >>
  /\ UNCHANGED notMcp

\* ------------------------------------------------------------------------
\* The MCP specification
\* ------------------------------------------------------------------------
\* Part 2 leaves the chat alone
ChatUnused ==
  /\ history = << SystemMessage >>
  /\ pc = "idle"
  /\ i = 0
  /\ calls = << >>
  /\ k = 0
  /\ inFlight = {}
  /\ outcome = NotCalled
  /\ modelCalls = 0
  /\ toolLog = << >>
  /\ effects = {}
  /\ auditNotes = {}
  /\ lostConnections = {}
  /\ nextId = 1
  /\ userMessages = 0
  /\ multiTurns = 0
  /\ deviations = 0
  /\ scriptTool = UnknownTool

McpInit ==
  /\ ChatUnused
  /\ PrioUnused
  /\ WfUnused
  /\ CliUnused
  /\ ApiUnused
  /\ CmdUnused
  /\ BatchUnused
  /\ PromiseUnused
  /\ AgingUnused
  /\ demoMode \in BOOLEAN
  /\ SessionFresh

McpNext ==
  \/ \E params \in CallRequests :
       \E reply \in ErpReplies(params.name, demoMode) : CallTool(params, reply)
  \/ ListTools
  \/ Close

McpSpec == McpInit /\ [][McpNext]_mcpVars

\* ------------------------------------------------------------------------
\* Properties of the MCP server and its session
\* ------------------------------------------------------------------------
\* `name` occurs in `text`
Mentions(text, name) ==
  \E a \in 1..Len(text) :
    /\ a + Len(name) - 1 <= Len(text)
    /\ SubSeq(text, a, a + Len(name) - 1) = name

\* A tools/call request has been sent in this session
Called == lastRequest # NoRequest

\* The step is a tools/call round trip
CallToolStep == requests' = requests + 1 /\ lastMethod' = "tools/call"

\* The result is one text block holding the JSON text of { error: message }
IsErrorResultOf(result, message) ==
  /\ result.isError = TRUE
  /\ Len(result.content) = 1
  /\ result.content[1].type = "text"
  /\ JSONparseText(result.content[1].text) =
       [threw |-> FALSE, value |-> Obj([error |-> message])]

\* C11: a tools/call for a name that is not registered is answered with a
\* result whose isError is true and whose single text block names the
\* requested tool; the handler does not reject and no data function runs.
\* A well-formed call for a registered tool that follows it on the same
\* session is served by the same process: in demo mode it succeeds, in
\* production mode its data function is run.
C11_UnknownToolIsErrorResult ==
  /\ [](Called /\ lastRequest.name \notin Range(ToolNames) =>
          /\ lastResult.isError = TRUE
          /\ Len(lastResult.content) = 1
          /\ lastResult.content[1].type = "text"
          /\ lastResult.content[1].text.json
          /\ "error" \in DOMAIN lastResult.content[1].text.value.fields
          /\ Mentions(lastResult.content[1].text.value.fields["error"], lastRequest.name)
          /\ lastDelivered.message # McpError
          /\ lastOps = << >>)
  /\ [][(/\ Called
         /\ lastRequest.name \notin Range(ToolNames)
         /\ client # NULL
         /\ CallToolStep
         /\ lastRequest'.name \in Range(ToolNames)
         /\ lastRequest'.hasArgs)
        => /\ processes' = processes
           /\ processes # {}
           /\ demoMode => ~lastResult'.isError /\ lastDelivered'.kind = "returned"
           /\ ~demoMode => lastOps' # << >>]_mcpVars

\* An unregistered tool was called on a session that had served a request
\* before, and the session still has its process
C11_Witness ==
  /\ lastMethod = "tools/call"
  /\ lastRequest.name = UnregisteredTool
  /\ lastResult.isError
  /\ requests >= 2
  /\ processes # {}

\* C12: when something is thrown inside the dispatch of a tool (a data
\* function rejecting, update_customer_notes included), the handler settles
\* with a result whose isError is true and whose single text block is the
\* JSON text of { error: message } for the thrown message; it does not
\* reject. The step leaves the server process running, and a well-formed
\* call that follows on the same session is served by that process: in demo
\* mode it succeeds, in production mode its data function is run.
C12_HandlerFailureIsErrorResult ==
  /\ [](Called /\ lastThrown # NULL =>
          /\ IsErrorResultOf(lastResult, lastThrown)
          /\ lastDelivered.message # McpError)
  /\ [][CallToolStep /\ lastThrown' # NULL =>
          /\ processes' # {}
          /\ client # NULL => processes' = processes]_mcpVars
  /\ [][(/\ lastThrown # NULL
         /\ client # NULL
         /\ CallToolStep
         /\ lastRequest'.name \in Range(ToolNames)
         /\ lastRequest'.hasArgs)
        => /\ processes' = processes
           /\ processes # {}
           /\ demoMode => ~lastResult'.isError /\ lastDelivered'.kind = "returned"
           /\ ~demoMode => lastOps' # << >>]_mcpVars

\* update_customer_notes failed at its PATCH request and the session still
\* has its process
C12_Witness ==
  /\ lastRequest.name = "update_customer_notes"
  /\ lastThrown = RequestError
  /\ Last(lastOps) = "PATCH accounts"
  /\ lastResult.isError
  /\ processes # {}

\* C13: every result of the call-tool handler has exactly one content
\* block, of type text. When nothing was thrown, isError is absent and the
\* text is JSON.stringify of the value the switch case obtained (for
\* update_customer_notes, the object { success: true }); isError is true
\* only when something was thrown, the unknown-tool error included.
C13_OneTextBlock ==
  Called =>
    /\ Len(lastResult.content) = 1
    /\ lastResult.content[1].type = "text"
    /\ lastThrown = NULL =>
         /\ lastResult.isError = FALSE
         /\ lastResult.content[1].text = JSONstringifyValue(lastReturned)
    /\ lastResult.isError = TRUE => lastThrown # NULL

\* The customer listing succeeded in production mode with two customers
C13_Witness ==
  /\ ~demoMode
  /\ lastRequest.name = "get_customers_with_outstanding_balance"
  /\ lastThrown = NULL
  /\ lastReturned = Arr(<< "ACC-1", "ACC-2" >>)
  /\ lastResult.isError = FALSE

\* Results a server may hand to the parser: one text block whose text is
\* an error object, an error object with more properties, another object,
\* an array, null or no JSON at all, with isError present or absent
ParserPayloads ==
  { Obj([error |-> RequestError]), Obj([error |-> TokenError, code |-> "500"]),
    Obj([success |-> "true"]), Arr(<< "CUST-001" >>), JsonNull }

ParserInputs ==
  { ToolResult(<< TextBlock(text) >>, isError) :
      text \in { JSONstringifyValue(value) : value \in ParserPayloads } \cup {NotJson},
      isError \in BOOLEAN }

\* C14: whenever the server's result has isError = true, the client's
\* parser throws an error carrying the message the server reported, so a
\* failure inside the dispatch is never returned to the caller as a value;
\* and whatever isError says, a text payload that parses to an object with
\* an `error` property is thrown as an error with that property as message.
C14_FailuresAreThrown ==
  /\ Called /\ lastResult.isError = TRUE => lastDelivered = DeliveredError(lastThrown)
  /\ Called /\ lastThrown # NULL => lastDelivered.kind = "thrown"
  /\ \A result \in ParserInputs :
       LET parsed == JSONparseText(result.content[1].text)
       IN ~parsed.threw /\ "error" \in DOMAIN parsed.value.fields =>
            parseToolResult(result, "tool") = DeliveredError(parsed.value.fields["error"])

\* The access token was refused and the client's caller got that error
C14_Witness ==
  /\ lastResult.isError = TRUE
  /\ lastThrown = TokenError
  /\ lastDelivered = DeliveredError(TokenError)

\* The step is a close() call
CloseStep == closes' = closes + 1

\* C15: close() leaves no child process of the session alive and drops the
\* client, whether or not a call was ever made; it does not throw; a
\* close() on a session that has no client changes nothing, so a second
\* close() is a no-op.
C15_CloseTerminates ==
  /\ [][CloseStep =>
          /\ processes' = {}
          /\ client' = NULL
          /\ lastClose' \in {"terminated", "noop"}
          /\ client # NULL => lastClose' = "terminated"
          /\ client = NULL =>
               /\ lastClose' = "noop"
               /\ processes = {}
               /\ spawned' = spawned]_mcpVars
  /\ [](client = NULL => processes = {})

\* A session was started, closed, and closed again
C15_Witness ==
  /\ spawned = 1
  /\ closes = 2
  /\ lastClose = "noop"
  /\ processes = {}

NamesOf(catalog) == [n \in 1..Len(catalog) |-> catalog[n].name]

\* C18: all tools/list results of a session are the same result, whatever
\* was called in between: exactly the four tools get_ar_aging_data,
\* get_payment_history, get_customers_with_outstanding_balance and
\* update_customer_notes, in that order.
C18_SameCatalog ==
  /\ Cardinality(catalogs) <= 1
  /\ \A catalog \in catalogs :
       /\ Len(catalog) = 4
       /\ NamesOf(catalog) =
            << "get_ar_aging_data", "get_payment_history",
               "get_customers_with_outstanding_balance", "update_customer_notes" >>

\* The tools were listed after a tool call had failed
C18_Witness ==
  /\ lastMethod = "tools/list"
  /\ failures > 0
  /\ catalogs # {}

\* inputSchema.required of the tool a request names
RequiredOf(name) ==
  UNION { ToolCatalog[n].required : n \in { m \in 1..Len(ToolCatalog) : ToolCatalog[m].name = name } }

\* The request leaves out a parameter its tool declares as required
OmitsRequired(params) ==
  \E key \in RequiredOf(params.name) : ~params.hasArgs \/ key \notin DOMAIN params.args

\* C19: a call that omits a parameter its tool's input schema requires
\* runs no data operation of the handler and yields no successful result.
C19_ParametersValidated ==
  Called /\ OmitsRequired(lastRequest) =>
    /\ lastOps = << >>
    /\ lastResult.isError = TRUE

\* No item occurs twice in the sequence
NoDuplicates(items) == \A a, b \in 1..Len(items) : items[a] = items[b] => a = b

MaxCustomers == 3

Min(a, b) == IF a <= b THEN a ELSE b
Max(a, b) == IF a >= b THEN a ELSE b

\* The ids the ERP system lists, in its order
CustomerIds == << "CUST-001", "CUST-002", "CUST-003" >>

\* riskScore.score in hundredths, and arData.totalOutstanding
Scores == {30, 80}
Outstandings == {50000, 250000}

\* One listed customer as the loop of prioritizeCollectionEfforts meets it:
\* its risk score, its balance, and whether getARAgingData or
\* analyzeCustomerRisk throws for it
ErpCustomer(customerId, score, totalOutstanding, fails) ==
  [customerId |-> customerId, score |-> score, totalOutstanding |-> totalOutstanding,
   fails |-> fails]

ErpCustomerLists ==
  UNION { { list \in [1..n -> { ErpCustomer(id, score, total, fails) :
                                  id \in Range(CustomerIds), score \in Scores,
                                  total \in Outstandings, fails \in BOOLEAN }] :
              \A m \in 1..n : list[m].customerId = CustomerIds[m] } :
          n \in 0..Min(MaxCustomers, Len(CustomerIds)) }

\* args.top_n: absent, or a number the model chose
TopNValues == {-1, 0, 1, 2, 5}

TopNArgs == {NoTopN} \cup { [given |-> TRUE, value |-> v] : v \in TopNValues }

\* (riskScore.score * 0.7) + (Math.min(totalOutstanding / 100000, 1) * 0.3),
\* in thousandths
Priority(score, totalOutstanding) ==
  score * 7 + Min(totalOutstanding \div 1000, 100) * 3

PrioritizedCustomer(customer) ==
  [customerId |-> customer.customerId,
   totalOutstanding |-> customer.totalOutstanding,
   priority |-> Priority(customer.score, customer.totalOutstanding)]

\* for (const customerId of customerIds) { try { ...push } catch { log } }:
\* a customer whose analysis throws is left out
RECURSIVE Analysed(_)
Analysed(customers) ==
  IF customers = << >>
    THEN << >>
    ELSE LET before == Analysed(SubSeq(customers, 1, Len(customers) - 1))
             customer == customers[Len(customers)]
         IN IF customer.fails THEN before ELSE Append(before, PrioritizedCustomer(customer))

\* sort((a, b) => b.priority - a.priority): descending, and stable
RECURSIVE SortByPriority(_)
SortByPriority(items) ==
  IF items = << >>
    THEN << >>
    ELSE LET sorted == SortByPriority(SubSeq(items, 1, Len(items) - 1))
             item == items[Len(items)]
             ahead == Cardinality({ n \in 1..Len(sorted) : sorted[n].priority >= item.priority })
         IN SubSeq(sorted, 1, ahead) \o << item >> \o SubSeq(sorted, ahead + 1, Len(sorted))

\* prioritizeCollectionEfforts: the sorted list, or the rejection of
\* getCustomersWithOutstandingBalance
prioritizeCollectionEfforts(erp) ==
  IF erp.fails
    THEN [kind |-> "thrown", customers |-> << >>]
    ELSE [kind |-> "returned", customers |-> SortByPriority(Analysed(erp.customers))]

\* items.slice(0, end): a negative end counts from the end of the array
Slice(items, end) ==
  LET last == IF end < 0 THEN Max(Len(items) + end, 0) ELSE Min(end, Len(items))
  IN SubSeq(items, 1, last)

\* (args.top_n as number) || 5
TopNOf(args) == IF args.given /\ args.value # 0 THEN args.value ELSE 5

\* case 'get_prioritized_customers' of executeTool
executeToolGetPrioritizedCustomers(args, erp) ==
  LET all == prioritizeCollectionEfforts(erp)
  IN IF all.kind = "thrown"
       THEN all
       ELSE [kind |-> "returned", customers |-> Slice(all.customers, TopNOf(args))]

GetPrioritizedCustomers ==
  /\ prioritized = NotPrioritized
  /\ prioritized' = executeToolGetPrioritizedCustomers(topN, erpCustomers)
  /\ UNCHANGED << erpCustomers, topN >>
  /\ UNCHANGED notPrio

PrioInit ==
  /\ ChatUnused
  /\ SessionUnused
  /\ WfUnused
  /\ CliUnused
  /\ ApiUnused
  /\ CmdUnused
  /\ BatchUnused
  /\ PromiseUnused
  /\ AgingUnused
  /\ erpCustomers \in { [fails |-> fails, customers |-> list] :
                          fails \in BOOLEAN, list \in ErpCustomerLists }
  /\ topN \in TopNArgs
  /\ prioritized = NotPrioritized

PrioNext == GetPrioritizedCustomers

PrioSpec == PrioInit /\ [][PrioNext]_prioVars

\* ------------------------------------------------------------------------
\* Properties of get_prioritized_customers
\* ------------------------------------------------------------------------
\* The number of customers the call asks for
Requested(args) == IF args.given THEN args.value ELSE 5

\* The sequence is in non-increasing priority order
NonIncreasing(items) ==
  \A a, b \in 1..Len(items) : a < b => items[a].priority >= items[b].priority

\* The customers of the ERP list whose analysis did not throw
AnalysedIds == { erpCustomers.customers[n].customerId :
                   n \in { m \in 1..Len(erpCustomers.customers) : ~erpCustomers.customers[m].fails } }

ReturnedIds == { prioritized.customers[n].customerId : n \in 1..Len(prioritized.customers) }

\* C21: a get_prioritized_customers call that returns, returns at most
\* top_n customers (at most 5 when top_n is absent), in non-increasing
\* priority order, and no analysed customer that was left out has a higher
\* priority than one that was returned.
C21_TopNHighestFirst ==
  prioritized.kind = "returned" =>
    /\ Len(prioritized.customers) <= Max(Requested(topN), 0)
    /\ NonIncreasing(prioritized.customers)
    /\ \A n \in 1..Len(erpCustomers.customers) :
         LET customer == erpCustomers.customers[n]
         IN ~customer.fails /\ customer.customerId \notin ReturnedIds =>
              \A m \in 1..Len(prioritized.customers) :
                prioritized.customers[m].priority
                  >= Priority(customer.score, customer.totalOutstanding)

\* C23: a get_prioritized_customers call returns fewer customers than it
\* asked for only when the ERP system lists fewer, and a listed customer is
\* missing from the result only because the result is full.
C23_MissingOnlyWhenFewer ==
  prioritized.kind = "returned" =>
    /\ Len(prioritized.customers) < Requested(topN) =>
         Len(erpCustomers.customers) < Requested(topN)
    /\ \A n \in 1..Len(erpCustomers.customers) :
         erpCustomers.customers[n].customerId \notin ReturnedIds =>
           Len(prioritized.customers) >= Requested(topN)

\* ------------------------------------------------------------------------
\* Part 4 - the example functions of examples/collections-workflow.ts
\* ------------------------------------------------------------------------
\* customers the ERP system lists to an example function
MaxListed == 2

Examples ==
  {"completeCollectionsWorkflow", "batchProcessHighRisk", "testTeamsMessaging",
   "detailedRiskAnalysis"}

ExampleEnvs ==
  { ExampleEnv(customers, riskLevel, customerEmail, collectionsEmail) :
      customers \in 0..MaxListed, riskLevel \in {"high", "medium", "low"},
      customerEmail \in BOOLEAN, collectionsEmail \in BOOLEAN }

\* One awaited call on the agent: the method, and whether the call sits in
\* a try whose catch lets the function go on
AgentCall(method, caught) == [method |-> method, caught |-> caught]

\* The agent calls of each function after its customers check, in order
completeCollectionsWorkflow(env) ==
  << AgentCall("analyzeCustomerRisk", FALSE) >>
  \o (CASE env.riskLevel = "high" ->
             (IF env.customerEmail THEN << AgentCall("sendDunningEmail", TRUE) >> ELSE << >>)
             \o (IF env.collectionsEmail THEN << AgentCall("sendTeamsFollowUp", TRUE) >> ELSE << >>)
        [] env.riskLevel = "medium" ->
             IF env.customerEmail THEN << AgentCall("proposePaymentPlan", TRUE) >> ELSE << >>
        [] OTHER ->
             IF env.customerEmail THEN << AgentCall("sendDunningEmail", TRUE) >> ELSE << >>)
  \o << AgentCall("recordPromiseToPay", FALSE) >>

batchProcessHighRisk(env) ==
  << AgentCall("processHighRiskCustomers", FALSE),
     AgentCall("prioritizeCollectionEfforts", FALSE) >>

testTeamsMessaging(env) ==
  IF ~env.collectionsEmail
    THEN << >>
    ELSE << AgentCall("analyzeCustomerRisk", FALSE), AgentCall("sendTeamsFollowUp", TRUE) >>

detailedRiskAnalysis(env) ==
  << AgentCall("analyzeCustomerRisk", FALSE), AgentCall("summarizeCustomerPromises", FALSE) >>

\* Every function starts with getCustomersWithOutstandingBalance and
\* returns at once when the list is empty
ExampleCalls(name, env) ==
  << AgentCall("getCustomersWithOutstandingBalance", FALSE) >>
  \o (IF env.customers = 0
        THEN << >>
        ELSE CASE name = "completeCollectionsWorkflow" -> completeCollectionsWorkflow(env)
               [] name = "batchProcessHighRisk" -> batchProcessHighRisk(env)
               [] name = "testTeamsMessaging" -> testTeamsMessaging(env)
               [] OTHER -> detailedRiskAnalysis(env))

\* The call the function is waiting for
PendingCall == ExampleCalls(example, exampleEnv)[Len(agentCalls) + 1]

\* Has the function made its last agent call?
LastCallMade == Len(agentCalls) + 1 = Len(ExampleCalls(example, exampleEnv))

\* The awaited agent call resolves: the function goes on, or returns after
\* its last call
AgentCallResolves ==
  /\ exampleStatus = "running"
  /\ agentCalls' = Append(agentCalls, PendingCall.method)
  /\ exampleStatus' = IF LastCallMade THEN "returned" ELSE "running"
  /\ UNCHANGED << example, exampleEnv >>
  /\ UNCHANGED notWf

\* The awaited agent call rejects: a surrounding catch logs it and the
\* function goes on, otherwise the function's promise rejects
AgentCallRejects ==
  /\ exampleStatus = "running"
  /\ agentCalls' = Append(agentCalls, PendingCall.method)
  /\ exampleStatus' = IF ~PendingCall.caught THEN "thrown"
                      ELSE IF LastCallMade THEN "returned" ELSE "running"
  /\ UNCHANGED << example, exampleEnv >>
  /\ UNCHANGED notWf

WfInit ==
  /\ ChatUnused
  /\ SessionUnused
  /\ PrioUnused
  /\ CliUnused
  /\ ApiUnused
  /\ CmdUnused
  /\ BatchUnused
  /\ PromiseUnused
  /\ AgingUnused
  /\ example \in Examples
  /\ exampleEnv \in ExampleEnvs
  /\ agentCalls = << >>
  /\ exampleStatus = "running"

WfNext ==
  \/ AgentCallResolves
  \/ AgentCallRejects

WfSpec == WfInit /\ [][WfNext]_wfVars

\* C22: when an example function has returned or thrown - after all its
\* steps, after the early return on an empty customer list, or on a
\* rejected agent call - it has called agent.close().
C22_ExamplesCloseAgent ==
  exampleStatus # "running" /\ example \in Examples => "close" \in Range(agentCalls)

\* ------------------------------------------------------------------------
\* Further properties of CollectionsChat.sendMessage
\* ------------------------------------------------------------------------
\* The intents of the history whose arguments string is not valid JSON
MalformedIntents(h) ==
  UNION { { h[p].tool_calls[n] : n \in { m \in 1..Len(h[p].tool_calls) :
                                           JSONparse(h[p].tool_calls[m].arguments).threw } } :
          p \in ToolTurnPositions(h) }

\* C24: an intent whose arguments string is not valid JSON does not make
\* sendMessage throw; by the next model call the history holds a tool
\* message with an error for that intent's id, the tool was not invoked for
\* it, and the other intents of its turn have their tool messages too.
C24_MalformedArgumentsAnswered ==
  /\ outcome # Thrown("SyntaxError")
  /\ pc = "awaitModel" =>
       /\ \A intent \in MalformedIntents(history) :
            /\ intent.id \notin Range(toolLog)
            /\ \E p \in 1..Len(history) :
                 /\ history[p].role = "tool"
                 /\ history[p].tool_call_id = intent.id
                 /\ history[p].content \in ErrorContents
       /\ \A p \in ToolTurnPositions(history) : ResultsFollow(history, p)

\* The last tool turn of the history
LastToolTurn(h) == CHOOSE p \in ToolTurnPositions(h) : \A q \in ToolTurnPositions(h) : q <= p

\* C25: when sendMessage has returned the fallback text, executeTool has
\* been invoked for every intent of the last model turn and the history
\* ends with that turn's tool messages, one per intent; the fallback text
\* is in no message of the history; and the next sendMessage appends its
\* user message directly after those tool messages.
C25_FallbackAfterLastTurnsTools ==
  /\ [](pc = "idle" /\ outcome = Returned(FALLBACK) =>
          /\ ToolTurnPositions(history) # {}
          /\ LET p == LastToolTurn(history)
             IN /\ ResultsFollow(history, p)
                /\ p + Len(history[p].tool_calls) = Len(history)
                /\ \A n \in 1..Len(history[p].tool_calls) :
                     history[p].tool_calls[n].id \in Range(toolLog)
          /\ Last(history).role = "tool"
          /\ \A q \in 1..Len(history) : history[q].content # FALLBACK)
  /\ [][pc = "idle" /\ outcome = Returned(FALLBACK) /\ userMessages' = userMessages + 1 =>
          /\ history' = Append(history, UserMessage)
          /\ Last(history).role = "tool"]_vars

\* The second sendMessage has started after the first one ran into the
\* bound: its user message stands directly behind a tool message
C25_Witness ==
  /\ userMessages = 2
  /\ pc = "awaitModel"
  /\ modelCalls = 1
  /\ Cardinality(ToolTurnPositions(history)) = MAX_ITERATIONS
  /\ Last(history) = UserMessage
  /\ history[Len(history) - 1].role = "tool"

\* ------------------------------------------------------------------------
\* Part 5 - the interactive chat CLI: main() and its rl.on('line') handler
\* ------------------------------------------------------------------------
\* 'line' events in one run
MaxLines == 4

\* raw.trim() is empty, is exit or quit, or is a message for the assistant
LineKinds == {"empty", "exit", "text"}

SendOutcomes == {"returned", "thrown"}

\* Faulty variant of IgnoresLine: the handler has no processing check
IgnoresLineNever == FALSE

\* if (processing) return;
IgnoresLine == processing

\* Faulty variant of HandlerResumes: no catch around the sendMessage call
HandlerResumesOnReply(settled) == settled = "returned"

\* try { reply = await chat.sendMessage(input) ... } catch (err) { ... }:
\* after either outcome the handler goes on to its last three statements
HandlerResumes(settled) == TRUE

\* readline emits a 'line' event and the handler runs up to its first
\* await or its return. Neither rl.pause() nor rl.close() stops lines that
\* readline has already read from being emitted, so a line may arrive in
\* every state.
LineArrives(kind) ==
  /\ linesSeen < MaxLines
  /\ linesSeen' = linesSeen + 1
  /\ IF IgnoresLine
       THEN /\ lastLine' = HandledLine(kind, "dropped")
            /\ cliLog' = Append(cliLog, "drop")
            /\ UNCHANGED << processing, paused, rlClosed, sendsInFlight, closesInFlight >>
       ELSE IF kind = "empty"
         THEN /\ lastLine' = HandledLine(kind, "prompted")
              /\ cliLog' = Append(cliLog, "prompt")
              /\ UNCHANGED << processing, paused, rlClosed, sendsInFlight, closesInFlight >>
         ELSE IF kind = "exit"
           THEN /\ rlClosed' = TRUE
                /\ closesInFlight' = closesInFlight + 1
                /\ lastLine' = HandledLine(kind, "closed")
                /\ cliLog' = Append(cliLog, "close")
                /\ UNCHANGED << processing, paused, sendsInFlight >>
           ELSE /\ processing' = TRUE
                /\ paused' = TRUE
                /\ sendsInFlight' = sendsInFlight + 1
                /\ lastLine' = HandledLine(kind, "sent")
                /\ cliLog' = Append(cliLog, "send")
                /\ UNCHANGED << rlClosed, closesInFlight >>
  /\ UNCHANGED notCli

\* chat.sendMessage settles and the handler runs to its end: it prints the
\* reply or the error, then processing = false; rl.resume(); prompt()
SendMessageSettles(settled) ==
  /\ sendsInFlight > 0
  /\ sendsInFlight' = sendsInFlight - 1
  /\ cliLog' = Append(cliLog, settled)
  /\ IF HandlerResumes(settled)
       THEN processing' = FALSE /\ paused' = FALSE
       ELSE UNCHANGED << processing, paused >>
  /\ UNCHANGED << rlClosed, closesInFlight, linesSeen, lastLine >>
  /\ UNCHANGED notCli

SomeSendMessageSettles == \E settled \in SendOutcomes : SendMessageSettles(settled)

\* chat.close() settles and the handler of the exit line returns
ChatCloseSettles ==
  /\ closesInFlight > 0
  /\ closesInFlight' = closesInFlight - 1
  /\ cliLog' = Append(cliLog, "closed")
  /\ UNCHANGED << processing, paused, rlClosed, sendsInFlight, linesSeen, lastLine >>
  /\ UNCHANGED notCli

CliInit ==
  /\ ChatUnused
  /\ SessionUnused
  /\ PrioUnused
  /\ WfUnused
  /\ ApiUnused
  /\ CmdUnused
  /\ BatchUnused
  /\ PromiseUnused
  /\ AgingUnused
  /\ CliFresh

CliNext ==
  \/ \E kind \in LineKinds : LineArrives(kind)
  \/ SomeSendMessageSettles
  \/ ChatCloseSettles

CliSpec == CliInit /\ [][CliNext]_cliVars

\* Every awaited sendMessage settles in the end
CliLiveSpec == CliSpec /\ WF_cliVars(SomeSendMessageSettles)

\* ------------------------------------------------------------------------
\* Properties of the chat CLI
\* ------------------------------------------------------------------------
\* The step is the arrival of a line
LineStep == linesSeen' = linesSeen + 1

\* The step starts a chat.sendMessage call
SendStarts == sendsInFlight' > sendsInFlight

\* chat.close() has been invoked
CloseInvoked == "close" \in Range(cliLog)

\* C26: at most one chat.sendMessage is in flight. A line that arrives
\* while one is in flight is dropped: it starts nothing, and since a
\* sendMessage starts only in the step in which a message line arrives and
\* none is in flight, the dropped line is not sent later either.
C26_OneSendMessageInFlight ==
  /\ [](sendsInFlight <= 1 /\ (sendsInFlight > 0 => processing))
  /\ [][LineStep /\ sendsInFlight > 0 =>
          /\ lastLine'.handling = "dropped"
          /\ UNCHANGED << sendsInFlight, closesInFlight, processing, paused, rlClosed >>]_cliVars
  /\ [][SendStarts => LineStep /\ lastLine'.kind = "text" /\ sendsInFlight = 0]_cliVars

\* A message line arrived while a sendMessage was in flight and was dropped
C26_Witness ==
  /\ sendsInFlight = 1
  /\ lastLine = HandledLine("text", "dropped")
  /\ Last(cliLog) = "drop"

\* C27: chat.close() is not invoked while a sendMessage is in flight, and
\* no sendMessage is started once chat.close() has been invoked.
C27_NoSendAfterClose ==
  /\ [][closesInFlight' > closesInFlight => sendsInFlight = 0]_cliVars
  /\ [][SendStarts => ~CloseInvoked]_cliVars

\* C28: whatever the outcome of a sendMessage, the handler resets
\* processing and resumes the input when it settles, so a CLI that is
\* processing eventually is not; and a non-empty line that arrives while
\* the CLI is not processing is handled, not dropped.
C28_ProcessingIsReset ==
  /\ (processing ~> (~processing /\ ~paused))
  /\ [][sendsInFlight' < sendsInFlight => ~processing' /\ ~paused']_cliVars
  /\ [][LineStep /\ ~processing /\ lastLine'.kind # "empty" =>
          lastLine'.handling \in {"sent", "closed"}]_cliVars

\* A sendMessage threw and the next message line was sent
C28_Witness ==
  /\ \E n \in 1..Len(cliLog) - 1 : cliLog[n] = "thrown" /\ cliLog[n + 1] = "send"
  /\ lastLine = HandledLine("text", "sent")

\* ------------------------------------------------------------------------
\* Part 6 - the REST API server: the agent singleton, the routes, shutdown()
\* and the SIGTERM / SIGINT handlers
\* ------------------------------------------------------------------------
\* Signals delivered to the process
MaxSignals == 3

\* HTTP requests served at the same time
MaxConnections == 2

Signals == {"SIGTERM", "SIGINT"}

\* How an awaited agent.close() settles
CloseOutcomes == {"resolved", "rejected"}

\* One call of shutdown(): the signal that started it, how far its
\* agent.close() got ("pending", "resolved", "rejected"), and whether it
\* went on to call server.close
Shutdown(signal, closed, stopped) ==
  [signal |-> signal, closed |-> closed, stopped |-> stopped]

\* A shutdown() that goes on to server.close whatever agent.close() did
ContinuesAfterAnyClose(settled) == TRUE

\* await agent.close(): shutdown() goes on only when the call resolved; a
\* rejection leaves shutdown() and reaches .catch(console.error)
ContinuesAfterClose(settled) == settled = "resolved"

\* agent.close() resolved: no MCP child process remains, whether one was
\* running or not
ChildAfterClose(running) == FALSE

\* A route calls a method of the agent singleton, which starts the MCP child
\* process when there is none
ChildAfterCall(running) == TRUE

\* server.close(cb): a listening server stops listening; the callback waits
\* for the server's 'close' event in every case
ServerClose(state) == IF state = "listening" THEN "closing" ELSE state

\* process.on('SIGTERM' | 'SIGINT'): shutdown() starts, logs, calls
\* agent.close() and waits for it
SignalArrives(signal) ==
  /\ ~exited
  /\ Len(shutdowns) < MaxSignals
  /\ shutdowns' = Append(shutdowns, Shutdown(signal, "pending", FALSE))
  /\ UNCHANGED << serverState, connections, apiChild, exited >>
  /\ UNCHANGED notApi

\* The agent.close() of the n-th shutdown() settles and shutdown() continues
\* or fails
AgentCloseSettles(n, settled) ==
  /\ ~exited
  /\ shutdowns[n].closed = "pending"
  /\ apiChild' = IF settled = "resolved" THEN ChildAfterClose(apiChild) ELSE apiChild
  /\ IF ContinuesAfterClose(settled)
       THEN /\ shutdowns' = [shutdowns EXCEPT ![n] = Shutdown(@.signal, settled, TRUE)]
            /\ serverState' = ServerClose(serverState)
       ELSE /\ shutdowns' = [shutdowns EXCEPT ![n] = Shutdown(@.signal, settled, FALSE)]
            /\ UNCHANGED serverState
  /\ UNCHANGED << connections, exited >>
  /\ UNCHANGED notApi

SomeAgentCloseSettles ==
  \E n \in 1..Len(shutdowns) : \E settled \in CloseOutcomes : AgentCloseSettles(n, settled)

\* A request reaches a route of the listening server and the route calls the
\* agent
RequestArrives ==
  /\ ~exited
  /\ serverState = "listening"
  /\ connections < MaxConnections
  /\ connections' = connections + 1
  /\ apiChild' = ChildAfterCall(apiChild)
  /\ UNCHANGED << shutdowns, serverState, exited >>
  /\ UNCHANGED notApi

\* A route that is still serving its request calls the agent again (the
\* agent's methods make several connector calls), also while the server is
\* closing
RouteCallsAgent ==
  /\ ~exited
  /\ connections > 0
  /\ ~apiChild
  /\ apiChild' = ChildAfterCall(apiChild)
  /\ UNCHANGED << shutdowns, serverState, connections, exited >>
  /\ UNCHANGED notApi

\* A route has answered and its connection ends
RequestCompletes ==
  /\ ~exited
  /\ connections > 0
  /\ connections' = connections - 1
  /\ UNCHANGED << shutdowns, serverState, apiChild, exited >>
  /\ UNCHANGED notApi

\* The server's 'close' event: it was told to close and no connection is
\* left; the callback of server.close runs process.exit(0)
ServerClosed ==
  /\ ~exited
  /\ serverState = "closing"
  /\ connections = 0
  /\ \E n \in 1..Len(shutdowns) : shutdowns[n].stopped
  /\ serverState' = "closed"
  /\ exited' = TRUE
  /\ UNCHANGED << shutdowns, connections, apiChild >>
  /\ UNCHANGED notApi

ApiInit ==
  /\ ChatUnused
  /\ SessionUnused
  /\ PrioUnused
  /\ WfUnused
  /\ CliUnused
  /\ CmdUnused
  /\ BatchUnused
  /\ PromiseUnused
  /\ AgingUnused
  /\ ApiFresh

ApiNext ==
  \/ \E signal \in Signals : SignalArrives(signal)
  \/ SomeAgentCloseSettles
  \/ RequestArrives
  \/ RouteCallsAgent
  \/ RequestCompletes
  \/ ServerClosed

ApiSpec == ApiInit /\ [][ApiNext]_apiVars

\* ------------------------------------------------------------------------
\* Properties of the REST API server's shutdown
\* ------------------------------------------------------------------------
\* Some agent.close() has completed
SomeCloseCompleted == \E n \in 1..Len(shutdowns) : shutdowns[n].closed = "resolved"

\* C29: a shutdown() calls server.close only after its own agent.close()
\* has completed, so the HTTP server stops listening only after an
\* agent.close() has completed and at that moment no MCP child process runs;
\* process.exit(0) is reached only after an agent.close() has completed.
\* This holds for every number and order of signals and close outcomes.
C29_CloseBeforeServerStops ==
  /\ [](\A n \in 1..Len(shutdowns) : shutdowns[n].stopped => shutdowns[n].closed = "resolved")
  /\ [](serverState # "listening" => SomeCloseCompleted)
  /\ [](exited => SomeCloseCompleted)
  /\ [][serverState = "listening" /\ serverState' # "listening" => ~apiChild']_apiVars

\* Three signals: the first agent.close() rejected, a later one resolved
\* while a request had started the child process, and the process exited
C29_Witness ==
  /\ exited
  /\ Len(shutdowns) = MaxSignals
  /\ shutdowns[1].closed = "rejected"
  /\ \E n \in 2..Len(shutdowns) : shutdowns[n].stopped
  /\ {shutdowns[n].signal : n \in 1..Len(shutdowns)} = Signals

\* ------------------------------------------------------------------------
\* Part 7 - the commands of examples/mcp-client-example.ts: each connects a
\* client, runs its requests inside try and closes the client in finally
\* ------------------------------------------------------------------------
\* The commands main() dispatches to
Commands == {"list", "aging", "history", "customers", "notes", "all"}

LIST_TOOLS == "tools/list"

\* The requests a command makes inside its try block, in order
CommandSteps(cmd) ==
  CASE cmd = "list" -> << LIST_TOOLS >>
    [] cmd = "aging" -> << "get_ar_aging_data" >>
    [] cmd = "history" -> << "get_payment_history" >>
    [] cmd = "customers" -> << "get_customers_with_outstanding_balance" >>
    [] cmd = "notes" -> << "update_customer_notes" >>
    [] cmd = "all" -> << LIST_TOOLS, "get_customers_with_outstanding_balance",
                         "get_ar_aging_data", "get_payment_history",
                         "update_customer_notes" >>

\* What a request of the client settles with: a rejection, or a result
StepReply(rejected, result) == [rejected |-> rejected, result |-> result]

\* The replies a step may get: the request rejects (the transport broke, the
\* server answered with a protocol error); the tool's data; the JSON text
\* null; the server's error result; a result without content; a text that
\* is not JSON
StepReplies ==
  { StepReply(TRUE, NoResult),
    StepReply(FALSE, SuccessResult(Obj([customerId |-> "CUST-001"]))),
    StepReply(FALSE, SuccessResult(JsonNull)),
    StepReply(FALSE, ErrorResult("ERP request failed")),
    StepReply(FALSE, ToolResult(<< >>, FALSE)),
    StepReply(FALSE, ToolResult(<< TextBlock(NotJson) >>, FALSE)) }

\* How a step of the try block fails, if it does: the awaited request
\* rejects, parseToolResult throws, or printing the parsed data throws (a
\* property of null is read). The answer to listTools is printed as it is.
StepFailure(step, reply) ==
  IF reply.rejected
    THEN "rejected"
    ELSE IF step = LIST_TOOLS
      THEN "none"
      ELSE LET delivered == parseToolResult(reply.result, step)
           IN IF delivered.kind = "thrown"
                THEN "parse"
                ELSE IF delivered.value = JsonNull THEN "print" ELSE "none"

\* Faulty variant of ClosesClient: client.close() at the end of try
ClosesClientOnSuccess(failed) == ~failed

\* try { ... } finally { await client.close(); }: the client is closed
\* however the try block was left
ClosesClient(failed) == TRUE

\* await connectClient() / await client.connect(transport), ahead of try: a
\* rejection leaves the command without a client
ConnectSettles(connected) ==
  /\ command \in Commands
  /\ cmdStatus = "connecting"
  /\ cmdConnected' = connected
  /\ cmdStatus' = IF connected THEN "running" ELSE "thrown"
  /\ cmdThrown' = IF connected THEN "none" ELSE "connect"
  /\ UNCHANGED << command, stepsDone, cmdFailure, clientCloses >>
  /\ UNCHANGED notCmd

\* The next request of the try block settles, its result is parsed and
\* printed. A failure leaves the try block, and so does the last step; on
\* the way out the finally block calls client.close().
StepRuns(reply) ==
  /\ cmdStatus = "running"
  /\ LET steps == CommandSteps(command)
         at == Len(stepsDone) + 1
         how == StepFailure(steps[at], reply)
         failed == how # "none"
         leaves == failed \/ at = Len(steps)
     IN /\ stepsDone' = IF failed THEN stepsDone ELSE Append(stepsDone, steps[at])
        /\ cmdFailure' = IF failed THEN [at |-> at, how |-> how] ELSE cmdFailure
        /\ cmdStatus' = IF ~leaves THEN "running"
                        ELSE IF ClosesClient(failed) THEN "closing"
                        ELSE "thrown"
        /\ clientCloses' = IF leaves /\ ClosesClient(failed)
                             THEN clientCloses + 1
                             ELSE clientCloses
        /\ cmdThrown' = IF leaves /\ ~ClosesClient(failed) THEN how ELSE cmdThrown
  /\ UNCHANGED << command, cmdConnected >>
  /\ UNCHANGED notCmd

\* await client.close() settles and the command returns, or throws: what
\* client.close() rejected with, which replaces a failure of the try block,
\* or else the failure of the try block
ClientCloseSettles(settled) ==
  /\ cmdStatus = "closing"
  /\ cmdThrown' = IF settled = "rejected" THEN "close" ELSE cmdFailure.how
  /\ cmdStatus' = IF cmdThrown' = "none" THEN "returned" ELSE "thrown"
  /\ UNCHANGED << command, cmdConnected, stepsDone, cmdFailure, clientCloses >>
  /\ UNCHANGED notCmd

CmdInit ==
  /\ ChatUnused
  /\ SessionUnused
  /\ PrioUnused
  /\ WfUnused
  /\ CliUnused
  /\ ApiUnused
  /\ BatchUnused
  /\ PromiseUnused
  /\ AgingUnused
  /\ command \in Commands
  /\ CmdFresh

CmdNext ==
  \/ \E connected \in BOOLEAN : ConnectSettles(connected)
  \/ \E reply \in StepReplies : StepRuns(reply)
  \/ \E settled \in CloseOutcomes : ClientCloseSettles(settled)

CmdSpec == CmdInit /\ [][CmdNext]_cmdVars

\* ------------------------------------------------------------------------
\* Properties of the commands of the MCP client example
\* ------------------------------------------------------------------------
\* The command function has returned or thrown
CommandOver == cmdStatus \in {"returned", "thrown"}

\* C30: a command that got a connected client has called client.close()
\* exactly once when it returns or throws, and never more than once, however
\* its requests, the parsing and the printing went; a step that fails is the
\* last step run, and the client is closed in the same step.
C30_ClientClosedOnce ==
  /\ [](clientCloses <= 1)
  /\ [](CommandOver /\ cmdConnected => clientCloses = 1)
  /\ [](cmdFailure # NoStepFailure =>
          /\ clientCloses = 1
          /\ stepsDone = SubSeq(CommandSteps(command), 1, cmdFailure.at - 1))
  /\ [][clientCloses' > clientCloses => cmdConnected /\ cmdStatus = "running"]_cmdVars

\* runAll threw after the server reported an error at its third step: two
\* steps were done, the last two were skipped, the client was closed once
C30_Witness ==
  /\ command = "all"
  /\ cmdStatus = "thrown"
  /\ cmdThrown = "parse"
  /\ cmdFailure = [at |-> 3, how |-> "parse"]
  /\ Len(stepsDone) = 2
  /\ clientCloses = 1

\* ------------------------------------------------------------------------
\* Further properties of the ERP MCP server and its client
\* ------------------------------------------------------------------------
\* The registered tools
Registered == Range(ToolNames)

\* C31: when the dispatch of a registered tool threw nothing, the client's
\* parser returns a value, not an error, and that value equals the value the
\* switch case serialized.
C31_RoundTrip ==
  Called /\ lastRequest.name \in Registered /\ lastThrown = NULL =>
    /\ lastDelivered.kind = "returned"
    /\ lastDelivered.value = lastReturned

\* ------------------------------------------------------------------------
\* What the server process writes: the diagnostics of the data functions
\* and of the fatal-error path, and the protocol messages of the transport
\* ------------------------------------------------------------------------
\* Faulty variant of Diagnostic: console.log(text)
DiagnosticOnStdout(text) == [stream |-> "stdout", kind |-> "diagnostic", text |-> text]

\* process.stderr.write(text)
Diagnostic(text) == [stream |-> "stderr", kind |-> "diagnostic", text |-> text]

\* The transport writes the response of a request to standard output
ProtocolMessage(result) == [stream |-> "stdout", kind |-> "message", result |-> result]

\* The diagnostics a dispatch writes, in order, given the operations it ran
\* and whether it threw. The mock functions and
\* getCustomersWithOutstandingBalance write nothing.
DiagnosticLines(name, demo, run) ==
  LET ran == Range(run.ops)
  IN CASE name = "get_ar_aging_data" /\ ~demo /\ run.ops # << >> ->
            << Diagnostic("Querying Dynamics 365 for customer") >>
            \o (IF "GET invoices" \in ran
                  THEN << Diagnostic("Found account"),
                          Diagnostic("Querying invoices for customer") >>
                  ELSE << >>)
            \o (IF ~run.threw
                  THEN << Diagnostic("Found invoices"),
                          Diagnostic("Fetching line items for invoices"),
                          Diagnostic("Total Outstanding") >>
                  ELSE << >>)
       [] name = "get_payment_history" /\ ~demo /\ run.ops # << >> ->
            << Diagnostic("Fetching payment history") >>
            \o (IF ~run.threw THEN << Diagnostic("Found payment records") >> ELSE << >>)
       [] name = "update_customer_notes" /\ run.ops # << >> /\ ~run.threw ->
            << Diagnostic("Updated notes for customer") >>
       [] OTHER -> << >>

\* Everything the process writes while it serves one tools/call request
ServerWrites(params, demo, reply) ==
  DiagnosticLines(params.name, demo, RunTool(params, demo, reply))
  \o << ProtocolMessage(CallToolHandler(params, demo, reply).result) >>

\* main().catch: the fatal-error path writes one line and exits
FatalWrites == << Diagnostic("[ERP MCP Server] Fatal error") >>

\* C32: whatever the server writes to standard output is a protocol
\* message: every diagnostic of a dispatch, in demo and in production mode,
\* after a success and after a failure, and the line of the fatal-error
\* path go to standard error.
C32_StdoutIsProtocolOnly ==
  /\ Called =>
       LET writes == ServerWrites(lastRequest, demoMode, lastReply)
       IN \A n \in 1..Len(writes) :
            /\ writes[n].stream = "stdout" => writes[n].kind = "message"
            /\ writes[n].kind = "diagnostic" => writes[n].stream = "stderr"
  /\ \A n \in 1..Len(FatalWrites) : FatalWrites[n].stream = "stderr"

\* A production dispatch of get_ar_aging_data failed at the invoices query
\* after three diagnostics, and the error result was the only write to
\* standard output
C32_Witness ==
  /\ Called
  /\ ~demoMode
  /\ lastRequest.name = "get_ar_aging_data"
  /\ lastThrown = RequestError
  /\ LET writes == ServerWrites(lastRequest, demoMode, lastReply)
     IN /\ Len(writes) = 4
        /\ writes[4] = ProtocolMessage(lastResult)
        /\ \A n \in 1..3 : writes[n].stream = "stderr"

\* ------------------------------------------------------------------------
\* Catalogs and dispatchers
\* ------------------------------------------------------------------------
\* The names the server advertises in tools/list
Advertised == Range(NamesOf(ListToolsHandler))

\* C33: a tools/call ends in the unknown-tool error exactly when its name
\* is not advertised by tools/list, and executeTool ends in 'Unknown tool'
\* exactly when the name is not in TOOLS: every advertised name has a case,
\* and no case exists for a name that is not advertised.
C33_CatalogMatchesDispatcher ==
  /\ Called =>
       (lastThrown = UnknownToolError(lastRequest.name) <=> lastRequest.name \notin Advertised)
  /\ \A name \in ModelToolNames :
       ExecuteTool(name, NoFailure).value = [error |-> "Unknown tool"] <=> name \notin TOOLS
  /\ ExecuteToolCases = TOOLS

\* The second or a later call of a session was for the advertised tool
\* update_customer_notes, and its case served it
C33_Witness ==
  /\ Called
  /\ lastRequest.name = "update_customer_notes"
  /\ lastRequest.name \in Advertised
  /\ lastThrown = NULL
  /\ requests >= 2

\* ------------------------------------------------------------------------
\* Properties of the CollectionsAgent operations behind the tools
\* ------------------------------------------------------------------------
\* The tools whose agent operation logs an audit note after a Graph send:
\* sendDunningEmail, sendTeamsFollowUp, proposePaymentPlan
AuditedSends == {"send_dunning_email", "send_teams_notification", "propose_payment_plan"}

\* C34: sendDunningEmail, sendTeamsFollowUp and proposePaymentPlan log
\* their audit note only after the Graph send has succeeded: an execution
\* that logged the note performed the send, and an execution that threw
\* (at data retrieval, chat creation or the send) logged no note.
C34_AuditAfterSend ==
  \A q \in SideEffectResults(history) :
    LET id == history[q].tool_call_id
    IN IntentById(history, id).name \in AuditedSends =>
         /\ id \in auditNotes => id \in effects /\ history[q].content = SuccessContent
         /\ history[q].content \in ErrorContents => id \notin auditNotes

\* A Teams follow-up was sent and its note logged; the next one failed at
\* the Graph call and logged no note
C34_Witness ==
  /\ scriptTool = "send_teams_notification"
  /\ \E q \in SideEffectResults(history) :
       /\ q < Len(history)
       /\ history[q].tool_call_id \in auditNotes \cap effects
       /\ history[q + 1].role = "tool"
       /\ history[q + 1].content = JSONstringify([error |-> "Failed to send"])
       /\ history[q + 1].tool_call_id \notin auditNotes

\* ------------------------------------------------------------------------
\* Part 8 - the batch operations of CollectionsAgent, one loop iteration at
\* a time: processHighRiskCustomers and prioritizeCollectionEfforts
\* ------------------------------------------------------------------------
BatchOps == {"processHighRiskCustomers", "prioritizeCollectionEfforts"}

\* Faulty variant of LoopGoesOn: no try/catch in the loop body
LoopStopsOnFailure(threw) == ~threw

\* try { ... } catch (error) { console.error(...) }: the loop goes on to the
\* next customer whether or not the body threw
LoopGoesOn(threw) == TRUE

\* await this.erpConnector.getCustomersWithOutstandingBalance(), ahead of
\* the loop and outside its try: a rejection leaves the operation
FetchSettles(resolved) ==
  /\ batchOp \in BatchOps
  /\ batchStatus = "fetching"
  /\ batchStatus' = IF resolved THEN "looping" ELSE "thrown"
  /\ UNCHANGED << batchOp, fetched, batchAt, visited, collected >>
  /\ UNCHANGED notBatch

\* One iteration of for (const customerId of customerIds): the customer is
\* analysed; prioritizeCollectionEfforts pushes its entry, and
\* processHighRiskCustomers logs it when it is high-risk. What the body
\* throws is caught and logged.
AnalyseNext ==
  /\ batchStatus = "looping"
  /\ batchAt <= Len(fetched)
  /\ LET customer == fetched[batchAt]
     IN /\ visited' = Append(visited, customer.customerId)
        /\ collected' = IF ~customer.fails /\ batchOp = "prioritizeCollectionEfforts"
                          THEN Append(collected, PrioritizedCustomer(customer))
                          ELSE collected
        /\ IF LoopGoesOn(customer.fails)
             THEN /\ batchAt' = batchAt + 1
                  /\ UNCHANGED batchStatus
             ELSE /\ batchStatus' = "thrown"
                  /\ UNCHANGED batchAt
  /\ UNCHANGED << batchOp, fetched >>
  /\ UNCHANGED notBatch

\* The loop is over: prioritizeCollectionEfforts sorts and returns its
\* entries, processHighRiskCustomers logs and returns
LoopEnds ==
  /\ batchStatus = "looping"
  /\ batchAt > Len(fetched)
  /\ collected' = SortByPriority(collected)
  /\ batchStatus' = "returned"
  /\ UNCHANGED << batchOp, fetched, batchAt, visited >>
  /\ UNCHANGED notBatch

BatchInit ==
  /\ ChatUnused
  /\ SessionUnused
  /\ PrioUnused
  /\ WfUnused
  /\ CliUnused
  /\ ApiUnused
  /\ CmdUnused
  /\ PromiseUnused
  /\ AgingUnused
  /\ batchOp \in BatchOps
  /\ fetched \in ErpCustomerLists
  /\ BatchFresh

BatchNext ==
  \/ \E resolved \in BOOLEAN : FetchSettles(resolved)
  \/ AnalyseNext
  \/ LoopEnds

BatchSpec == BatchInit /\ [][BatchNext]_batchVars

\* ------------------------------------------------------------------------
\* Properties of the batch operations
\* ------------------------------------------------------------------------
\* The customer ids of the fetched list, in list order
FetchedIds == [n \in 1..Len(fetched) |-> fetched[n].customerId]

\* The positions of the fetched list whose analysis succeeds
Succeeding == { n \in 1..Len(fetched) : ~fetched[n].fails }

\* C35: the loop of a batch operation enters its body for the customers of
\* the fetched list in list order, each once; a failing analysis neither
\* stops the loop nor makes the operation throw (only the rejected fetch
\* does, before any customer is visited); when the operation returns, every
\* customer was visited, and prioritizeCollectionEfforts returns one entry
\* for each customer whose analysis succeeded and none for the others.
C35_BatchVisitsAll ==
  /\ IsPrefix(visited, FetchedIds)
  /\ batchStatus = "thrown" => visited = << >>
  /\ batchStatus = "returned" => visited = FetchedIds
  /\ batchStatus = "returned" /\ batchOp = "prioritizeCollectionEfforts" =>
       /\ Len(collected) = Cardinality(Succeeding)
       /\ \A n \in 1..Len(fetched) :
            Cardinality({ m \in 1..Len(collected) :
                            collected[m].customerId = fetched[n].customerId })
              = IF fetched[n].fails THEN 0 ELSE 1
  /\ batchStatus = "returned" /\ batchOp = "processHighRiskCustomers" => collected = << >>

\* prioritizeCollectionEfforts returned two entries for three customers,
\* the second of which failed
C35_Witness ==
  /\ batchOp = "prioritizeCollectionEfforts"
  /\ batchStatus = "returned"
  /\ Len(fetched) = 3
  /\ fetched[2].fails /\ ~fetched[1].fails /\ ~fetched[3].fails
  /\ Len(visited) = 3
  /\ Len(collected) = 2

\* ------------------------------------------------------------------------
\* Part 9 - summarizeCustomerPromises, one filter callback at a time, with
\* a clock that may advance between any two of them
\* ------------------------------------------------------------------------
MaxPromises == 2
MaxClock == 3

\* promisedDate strings, as toISOString() and Dynamics 365 give them
PromisedDates == {"1970-01-01T00:00:00.001Z", "1970-01-01T00:00:00.002Z"}

\* new Date(text).getTime(): the milliseconds since the epoch
DateParse(text) ==
  CASE text = "1970-01-01T00:00:00.001Z" -> 1
    [] text = "1970-01-01T00:00:00.002Z" -> 2

PromiseToPay == [promisedDate : PromisedDates, fulfilled : BOOLEAN]

PromiseHistories == SeqsUpTo(PromiseToPay, MaxPromises)

\* The three filters, in the order the summary runs them
Filters == << "fulfilled", "broken", "pending" >>

\* The callback of each filter, for promise p when new Date() reads now
FilterCallback(name, p, now) ==
  CASE name = "fulfilled" -> p.fulfilled
    [] name = "broken" -> ~p.fulfilled /\ DateParse(p.promisedDate) < now
    [] name = "pending" -> ~p.fulfilled /\ DateParse(p.promisedDate) >= now

\* Time passes while the summary is computed
ClockAdvances ==
  /\ filterName # "returned"
  /\ clock < MaxClock
  /\ clock' = clock + 1
  /\ UNCHANGED << promises, filterName, filterAt, counted >>
  /\ UNCHANGED notPromise

\* The running filter calls its callback on the next promise
FilterTests ==
  /\ filterName \in Range(Filters)
  /\ filterAt <= Len(promises)
  /\ counted' = [counted EXCEPT ![filterName] =
                   IF FilterCallback(filterName, promises[filterAt], clock)
                     THEN @ + 1 ELSE @]
  /\ filterAt' = filterAt + 1
  /\ UNCHANGED << promises, clock, filterName >>
  /\ UNCHANGED notPromise

\* The running filter has seen every promise: the next one starts, and
\* after the last the summary is returned
FilterEnds ==
  /\ filterName \in Range(Filters)
  /\ filterAt > Len(promises)
  /\ filterName' = CASE filterName = "fulfilled" -> "broken"
                     [] filterName = "broken" -> "pending"
                     [] filterName = "pending" -> "returned"
  /\ filterAt' = 1
  /\ UNCHANGED << promises, clock, counted >>
  /\ UNCHANGED notPromise

\* The summary object
PromiseSummary ==
  [totalPromises |-> Len(promises),
   fulfilledPromises |-> counted.fulfilled,
   brokenPromises |-> counted.broken,
   pendingPromises |-> counted.pending]

PromiseInit ==
  /\ ChatUnused
  /\ SessionUnused
  /\ PrioUnused
  /\ WfUnused
  /\ CliUnused
  /\ ApiUnused
  /\ CmdUnused
  /\ BatchUnused
  /\ AgingUnused
  /\ promises \in PromiseHistories
  /\ clock = 0
  /\ SummaryFresh

PromiseNext ==
  \/ ClockAdvances
  \/ FilterTests
  \/ FilterEnds

PromiseSpec == PromiseInit /\ [][PromiseNext]_promiseVars

\* ------------------------------------------------------------------------
\* Properties of the promise summary
\* ------------------------------------------------------------------------
\* C36: in the returned summary every promise is counted in exactly one of
\* the three classes, so fulfilledPromises + brokenPromises +
\* pendingPromises = totalPromises, whatever the clock read at each of the
\* date comparisons.
C36_ClassesPartition ==
  filterName = "returned" =>
    PromiseSummary.fulfilledPromises + PromiseSummary.brokenPromises
      + PromiseSummary.pendingPromises = PromiseSummary.totalPromises

\* ------------------------------------------------------------------------
\* Part 10 - calculateARAgingFromDynamicsInvoices of ERPConnector and of
\* the MCP server, run side by side over the same invoice rows, one loop
\* iteration at a time
\* ------------------------------------------------------------------------
MaxInvoices == 3

\* Instants are counted in units of twelve hours from 2026-01-01T00:00Z,
\* so a day (86_400_000 ms) is two units
TicksPerDay == 2

\* const today = new Date(), here 2026-05-31T00:00Z
Today == 300

\* The bits of the significand of a number. An IEEE 754 double has 53; the
\* model keeps round-to-nearest, ties-to-even arithmetic and shortens the
\* significand so that rounding happens on small amounts.
SignificandBits == 3

RECURSIVE Quantum(_, _)
\* The spacing of the representable numbers around x >= 0
Quantum(x, q) == IF x < q * 2^SignificandBits THEN q ELSE Quantum(x, 2 * q)

\* The representable number nearest to x >= 0, ties to the even significand
FloatRound(x) ==
  LET q == Quantum(x, 1)
      m == x \div q
      r == x - m * q
  IN IF 2 * r < q THEN m * q
     ELSE IF 2 * r > q THEN (m + 1) * q
     ELSE IF m % 2 = 0 THEN m * q ELSE (m + 1) * q

\* a + b on numbers
FloatAdd(a, b) == FloatRound(a + b)

\* duedate values of the rows
DueDates ==
  {"2026-06-01T00:00:00.000Z", "2026-05-01T12:00:00.000Z",
   "2026-05-01T00:00:00.000Z", "2026-04-01T00:00:00.000Z",
   "2026-03-02T00:00:00.000Z", "2026-01-31T00:00:00.000Z"}

\* new Date(inv.duedate).getTime()
DueTime(text) ==
  CASE text = "2026-06-01T00:00:00.000Z" -> 302
    [] text = "2026-05-01T12:00:00.000Z" -> 241
    [] text = "2026-05-01T00:00:00.000Z" -> 240
    [] text = "2026-04-01T00:00:00.000Z" -> 180
    [] text = "2026-03-02T00:00:00.000Z" -> 120
    [] text = "2026-01-31T00:00:00.000Z" -> 60

\* totalamount values of the rows
Amounts == {0, 1, 2, 7}

\* How long after `today` a later new Date() in the loop may read
ClockLateness == 0..1

\* An invoice row of Dynamics 365; duedate and totalamount may be missing
D365Invoice ==
  [duedate : DueDates, totalamount : Amounts]
    \cup [duedate : DueDates] \cup [totalamount : Amounts]
    \cup {[invoiceid |-> "INV"]}

D365InvoiceLists == SeqsUpTo(D365Invoice, MaxInvoices)

Has(inv, field) == field \in DOMAIN inv

\* inv.duedate ? new Date(inv.duedate) : new Date()
DueDateOf(inv, late) ==
  IF Has(inv, "duedate") THEN DueTime(inv.duedate) ELSE Today + late

\* Math.floor((today.getTime() - dueDate.getTime()) / 86_400_000)
DaysOverdue(dueDate) == (Today - dueDate) \div TicksPerDay

\* ERPConnector: d365Invoice.totalamount || 0
ErpAmount(inv) ==
  IF Has(inv, "totalamount") /\ inv.totalamount # 0 THEN inv.totalamount ELSE 0

\* MCP server: inv.totalamount ?? 0
McpAmount(inv) ==
  IF Has(inv, "totalamount") THEN inv.totalamount ELSE 0

\* ERPConnector: the if chain that picks the bucket
ErpBucket(daysOverdue) ==
  IF daysOverdue < 0 THEN "current"
  ELSE IF daysOverdue < 30 THEN "current"
  ELSE IF daysOverdue < 60 THEN "days30"
  ELSE IF daysOverdue < 90 THEN "days60"
  ELSE IF daysOverdue < 120 THEN "days90"
  ELSE "days120Plus"

\* MCP server: the if chain that picks the bucket
McpBucket(daysOverdue) ==
  IF daysOverdue < 30 THEN "current"
  ELSE IF daysOverdue < 60 THEN "days30"
  ELSE IF daysOverdue < 90 THEN "days60"
  ELSE IF daysOverdue < 120 THEN "days90"
  ELSE "days120Plus"

\* The rest of the loop body: bucket += amount, totalOutstanding += amount,
\* invoices.push({ ..., daysOverdue: Math.max(0, daysOverdue) })
AddInvoice(aging, bucket, amount, daysOverdue) ==
  [aging EXCEPT ![bucket] = FloatAdd(@, amount),
                !.totalOutstanding = FloatAdd(@, amount),
                !.invoices = Append(@, [amount |-> amount,
                                        daysOverdue |-> Max(0, daysOverdue)])]

\* One iteration of the loop in each implementation, on the same row
BucketNext ==
  /\ ~agingDone
  /\ agingAt <= Len(d365Invoices)
  /\ \E erpLate \in ClockLateness, mcpLate \in ClockLateness :
       LET inv == d365Invoices[agingAt]
           erpDays == DaysOverdue(DueDateOf(inv, erpLate))
           mcpDays == DaysOverdue(DueDateOf(inv, mcpLate))
       IN /\ erpAging' = AddInvoice(erpAging, ErpBucket(erpDays), ErpAmount(inv), erpDays)
          /\ mcpAging' = AddInvoice(mcpAging, McpBucket(mcpDays), McpAmount(inv), mcpDays)
  /\ agingAt' = agingAt + 1
  /\ UNCHANGED << d365Invoices, agingDone >>
  /\ UNCHANGED notAging

\* Both loops are over and the results are returned
AgingReturns ==
  /\ ~agingDone
  /\ agingAt > Len(d365Invoices)
  /\ agingDone' = TRUE
  /\ UNCHANGED << d365Invoices, agingAt, erpAging, mcpAging >>
  /\ UNCHANGED notAging

AgingInit ==
  /\ ChatUnused
  /\ SessionUnused
  /\ PrioUnused
  /\ WfUnused
  /\ CliUnused
  /\ ApiUnused
  /\ CmdUnused
  /\ BatchUnused
  /\ PromiseUnused
  /\ d365Invoices \in D365InvoiceLists
  /\ AgingFresh

AgingNext ==
  \/ BucketNext
  \/ AgingReturns

AgingSpec == AgingInit /\ [][AgingNext]_agingVars

\* ------------------------------------------------------------------------
\* Properties of the aging computation
\* ------------------------------------------------------------------------
\* current + days30 + days60 + days90 + days120Plus, as an expression on
\* numbers
BucketSum(aging) ==
  FloatAdd(FloatAdd(FloatAdd(FloatAdd(aging.current, aging.days30),
                             aging.days60), aging.days90), aging.days120Plus)

\* One entry per row, in order, none with a negative daysOverdue
EntriesMatchRows(aging) ==
  /\ Len(aging.invoices) = Len(d365Invoices)
  /\ \A n \in 1..Len(aging.invoices) : aging.invoices[n].daysOverdue >= 0

\* The two implementations filled the buckets alike
SameBuckets ==
  \A bucket \in {"current", "days30", "days60", "days90", "days120Plus"} :
    erpAging[bucket] = mcpAging[bucket]

\* C37: when both implementations have returned, each has one entry per
\* invoice row with daysOverdue >= 0, the two put every amount in the same
\* bucket, and in each result totalOutstanding equals
\* current + days30 + days60 + days90 + days120Plus.
C37_AgingPartition ==
  agingDone =>
    /\ EntriesMatchRows(erpAging)
    /\ EntriesMatchRows(mcpAging)
    /\ SameBuckets
    /\ erpAging.totalOutstanding = BucketSum(erpAging)
    /\ mcpAging.totalOutstanding = BucketSum(mcpAging)

====
